---------------------------- MODULE Spec2Model ----------------------------
(***************************************************************************)
(* A model of the ghostblade world-interaction rules: the level loader,    *)
(* the tile accessors, collision classification, the interaction handlers, *)
(* the enemy walk and the level progression, with the main loop that       *)
(* drives them.                                                            *)
(*                                                                         *)
(* Grids are 0-indexed in the program.  Here a grid is a sequence of rows  *)
(* (1-indexed), and Cell(m, r, c) addresses it with the program's indices. *)
(* An Option<T> is the empty sequence (None) or a one-element sequence     *)
(* (Some).  An index panic is the value IndexFault.                        *)
(***************************************************************************)
EXTENDS Integers, Sequences, FiniteSets, TLC

VARIABLES game, player, files, running, panicked, last

vars == <<game, player, files, running, panicked, last>>

(***************************************************************************)
(* types.rs                                                                *)
(***************************************************************************)
Position(r, c) == [row |-> r, col |-> c]

ItemType == {"Axe", "Sword", "Key", "Bomb", "Hook", "WindChime", "DragonSword"}

TileType ==
    {"Empty", "Wall", "Bamboo", "Mountain", "Water", "Volcano", "Lava",
     "SnowMountain", "Axe", "WoodLog", "Canoe", "Sword", "Key", "Door",
     "DoorOpen", "Cottage", "Tomb", "Bomb", "Rock", "Goal", "Hook", "HookStart",
     "HookEnd", "Link", "CrystalA", "CrystalB", "CrystalC", "FlameA", "FlameB",
     "FlameC", "Alembic", "WindChime", "Lantern", "DragonSword", "Oni", "Boss",
     "Princess"}

\* The value of an index expression that is out of range: the program panics.
IndexFault == "IndexFault"

None == <<>>
Some(x) == <<x>>

\* Numeric casts.
AsU8(n) == n % 256
AsI16(n) == ((n + 32768) % 65536) - 32768

(***************************************************************************)
(* level.rs                                                                *)
(***************************************************************************)
\* The character table of Level::load; 'p' and 'e' push an empty tile.
DecodeChar(c) ==
    CASE c = "t" -> "Wall"
      [] c = "b" -> "Bamboo"
      [] c = "m" -> "Mountain"
      [] c = "v" -> "Volcano"
      [] c = "n" -> "SnowMountain"
      [] c = "h" -> "Cottage"
      [] c = "s" -> "Empty"
      [] c = "w" -> "Water"
      [] c = "z" -> "Lava"
      [] c = "a" -> "Axe"
      [] c = "l" -> "WoodLog"
      [] c = "c" -> "Canoe"
      [] c = "+" -> "Sword"
      [] c = "k" -> "Key"
      [] c = "d" -> "Door"
      [] c = "D" -> "DoorOpen"
      [] c = "r" -> "Rock"
      [] c = "@" -> "Bomb"
      [] c = "j" -> "Hook"
      [] c = "1" -> "HookStart"
      [] c = "2" -> "HookEnd"
      [] c = "-" -> "Link"
      [] c = "A" -> "CrystalA"
      [] c = "B" -> "CrystalB"
      [] c = "C" -> "CrystalC"
      [] c = "3" -> "FlameA"
      [] c = "4" -> "FlameB"
      [] c = "5" -> "FlameC"
      [] c = "i" -> "WindChime"
      [] c = "x" -> "DragonSword"
      [] c = "O" -> "Lantern"
      [] c = "o" -> "Oni"
      [] c = "0" -> "Boss"
      [] c = "$" -> "Princess"
      [] c = "p" -> "Empty"
      [] c = "e" -> "Empty"
      [] c = "g" -> "Goal"
      [] OTHER -> "Empty"

\* The characters of row r in reading order, each with its indices.
RowChars(lines, r) ==
    [c \in 1..Len(lines[r]) |->
        [row |-> AsI16(r - 1), col |-> AsI16(c - 1), ch |-> lines[r][c]]]

\* The characters of rows lo..hi in reading order (the rows are joined by
\* halves, which keeps the evaluation shallow on layouts of many rows).
RECURSIVE CharsBetween(_, _, _)
CharsBetween(lines, lo, hi) ==
    IF lo > hi THEN <<>>
    ELSE IF lo = hi THEN RowChars(lines, lo)
    ELSE LET mid == (lo + hi) \div 2
         IN  CharsBetween(lines, lo, mid) \o CharsBetween(lines, mid + 1, hi)

IsEnemyChar(x) == x.ch = "e"
IsPlayerChar(x) == x.ch = "p"

PositionsOf(cs) == [i \in 1..Len(cs) |-> Position(cs[i].row, cs[i].col)]

\* Level::load on the contents of a level file.  A file is None (missing or
\* unreadable) or Some(lines), lines a sequence of rows of characters.
\* With no line at all, map[0] panics.
LoadPanics(file) == file # None /\ Len(file[1]) = 0

\* A plausible slip: the first spawn marker in reading order is kept.
Load_first_spawn_wins(file) ==
    IF file = None \/ LoadPanics(file) THEN None
    ELSE LET lines   == file[1]
             chars   == CharsBetween(lines, 1, Len(lines))
             map     == [r \in 1..Len(lines) |->
                            [c \in 1..Len(lines[r]) |-> DecodeChar(lines[r][c])]]
             starts  == PositionsOf(SelectSeq(chars, IsPlayerChar))
             enemies == PositionsOf(SelectSeq(chars, IsEnemyChar))
         IN  Some([map          |-> map,
                   enemies      |-> enemies,
                   player_start |-> IF starts = <<>> THEN Position(0, 0)
                                    ELSE starts[1],
                   map_size     |-> <<AsU8(Len(map)), AsU8(Len(map[1]))>>])

Load(file) ==
    IF file = None \/ LoadPanics(file) THEN None
    ELSE LET lines   == file[1]
             chars   == CharsBetween(lines, 1, Len(lines))
             map     == [r \in 1..Len(lines) |->
                            [c \in 1..Len(lines[r]) |-> DecodeChar(lines[r][c])]]
             starts  == PositionsOf(SelectSeq(chars, IsPlayerChar))
             enemies == PositionsOf(SelectSeq(chars, IsEnemyChar))
         IN  Some([map          |-> map,
                   enemies      |-> enemies,
                   player_start |-> IF starts = <<>> THEN Position(0, 0)
                                    ELSE starts[Len(starts)],
                   map_size     |-> <<AsU8(Len(map)), AsU8(Len(map[1]))>>])

\* map[r][c] with the program's indices: the tile, or a panic.
HasCell(m, r, c) == r >= 0 /\ r < Len(m) /\ c >= 0 /\ c < Len(m[r + 1])
Cell(m, r, c) == IF HasCell(m, r, c) THEN m[r + 1][c + 1] ELSE IndexFault

\* The bounds check shared by set_tile, get_tile and check_collision.
InBounds(lv, pos) ==
    /\ pos.row >= 0
    /\ pos.row < lv.map_size[1]
    /\ pos.col >= 0
    /\ pos.col < lv.map_size[2]

\* An index expression map[row][col] behind a passed bounds check panics when
\* the grid has no such cell (a row shorter than the stored column count).
IndexPanics(lv, pos) == InBounds(lv, pos) /\ ~HasCell(lv.map, pos.row, pos.col)

\* Level::set_tile: the level after the call (when it does not panic).
set_tile(lv, pos, tile_type) ==
    IF InBounds(lv, pos) /\ HasCell(lv.map, pos.row, pos.col)
    THEN [lv EXCEPT !.map[pos.row + 1][pos.col + 1] = tile_type]
    ELSE lv

\* Level::get_tile: Some(tile), None, or Some(IndexFault) for a panic.
get_tile(lv, pos) ==
    IF InBounds(lv, pos)
    THEN Some(Cell(lv.map, pos.row, pos.col))
    ELSE None

(***************************************************************************)
(* game.rs: classification                                                 *)
(***************************************************************************)
max_levels == 10

CNone == <<"None">>
CGoal == <<"Goal">>
CPrincess == <<"Princess">>
CFault == <<"Fault">>
Blocking(k) == <<"Blocking", k>>
Interactive(k) == <<"Interactive", k>>
InteractiveItem(i) == <<"Interactive", "Item", i>>

InSeq(x, s) == \E i \in 1..Len(s) : s[i] = x

\* The match on the tile in Game::check_collision; None when no arm returns.
TileCollision(t) ==
    CASE t = IndexFault     -> Some(CFault)
      [] t = "Wall"         -> Some(Blocking("Wall"))
      [] t = "Bamboo"       -> Some(Blocking("Bamboo"))
      [] t = "Mountain"     -> Some(Blocking("Mountain"))
      [] t = "Water"        -> Some(Blocking("Water"))
      [] t = "Volcano"      -> Some(Blocking("Volcano"))
      [] t = "Lava"         -> Some(Blocking("Lava"))
      [] t = "SnowMountain" -> Some(Blocking("SnowMountain"))
      [] t = "FlameA"       -> Some(Blocking("FlameA"))
      [] t = "FlameB"       -> Some(Blocking("FlameB"))
      [] t = "FlameC"       -> Some(Blocking("FlameC"))
      [] t = "Lantern"      -> Some(Blocking("Lantern"))
      [] t = "Goal"         -> Some(CGoal)
      [] t = "Princess"     -> Some(CPrincess)
      [] t = "Axe"          -> Some(InteractiveItem("Axe"))
      [] t = "Sword"        -> Some(InteractiveItem("Sword"))
      [] t = "Key"          -> Some(InteractiveItem("Key"))
      [] t = "Bomb"         -> Some(InteractiveItem("Bomb"))
      [] t = "Hook"         -> Some(InteractiveItem("Hook"))
      [] t = "WindChime"    -> Some(InteractiveItem("WindChime"))
      [] t = "DragonSword"  -> Some(InteractiveItem("DragonSword"))
      [] t = "WoodLog"      -> Some(Interactive("WoodLog"))
      [] t = "Door"         -> Some(Interactive("Door"))
      [] t = "Cottage"      -> Some(Interactive("Cottage"))
      [] t = "Rock"         -> Some(Interactive("Rock"))
      [] t = "HookStart"    -> Some(Interactive("HookStart"))
      [] t = "CrystalA"     -> Some(Interactive("CrystalA"))
      [] t = "CrystalB"     -> Some(Interactive("CrystalB"))
      [] t = "CrystalC"     -> Some(Interactive("CrystalC"))
      [] t = "Oni"          -> Some(Interactive("Oni"))
      [] t = "Boss"         -> Some(Interactive("Boss"))
      [] OTHER              -> None

\* A plausible slip: the enemy list is consulted before the tile.
check_collision_enemy_first(lv, pos) ==
    IF ~InBounds(lv, pos) THEN Blocking("Wall")
    ELSE IF InSeq(pos, lv.enemies) THEN Interactive("Enemy")
    ELSE LET byTile == TileCollision(Cell(lv.map, pos.row, pos.col))
         IN  IF byTile # None THEN byTile[1] ELSE CNone

\* A plausible slip: the upper bounds are compared with > instead of >=.
check_collision_off_by_one(lv, pos) ==
    IF pos.row < 0 \/ pos.row > lv.map_size[1]
          \/ pos.col < 0 \/ pos.col > lv.map_size[2]
    THEN Blocking("Wall")
    ELSE LET byTile == TileCollision(Cell(lv.map, pos.row, pos.col))
         IN  IF byTile # None THEN byTile[1]
             ELSE IF InSeq(pos, lv.enemies) THEN Interactive("Enemy")
             ELSE CNone

check_collision(lv, pos) ==
    IF ~InBounds(lv, pos) THEN Blocking("Wall")
    ELSE LET byTile == TileCollision(Cell(lv.map, pos.row, pos.col))
         IN  IF byTile # None THEN byTile[1]
             ELSE IF InSeq(pos, lv.enemies) THEN Interactive("Enemy")
             ELSE CNone

(***************************************************************************)
(* player.rs                                                               *)
(***************************************************************************)
NewPlayer == [pos |-> Position(0, 0), pending_move |-> None, inventory |-> <<>>]

reset_position(pl, pos) == [pl EXCEPT !.pos = pos, !.pending_move = None]

\* A plausible slip: the step is taken from the pending target when there
\* is one, not from the position.
move_up_from_pending(pl) ==
    LET from == IF pl.pending_move # None THEN pl.pending_move[1] ELSE pl.pos
    IN  [pl EXCEPT !.pending_move = Some(Position(from.row - 1, from.col))]

move_up(pl) ==
    [pl EXCEPT !.pending_move = Some(Position(pl.pos.row - 1, pl.pos.col))]
move_down(pl) ==
    [pl EXCEPT !.pending_move = Some(Position(pl.pos.row + 1, pl.pos.col))]
move_left(pl) ==
    [pl EXCEPT !.pending_move = Some(Position(pl.pos.row, pl.pos.col - 1))]
move_right(pl) ==
    [pl EXCEPT !.pending_move = Some(Position(pl.pos.row, pl.pos.col + 1))]

\* A plausible slip: the pending move is applied but not cleared.
commit_move_keeps_pending(pl) ==
    [pl EXCEPT !.pos = IF pl.pending_move # None THEN pl.pending_move[1] ELSE @]

commit_move(pl) ==
    [pl EXCEPT !.pos = IF pl.pending_move # None THEN pl.pending_move[1] ELSE @,
               !.pending_move = None]

\* A plausible slip: the rejected move is applied.
cancel_move_applies_move(pl) ==
    [pl EXCEPT !.pos = IF pl.pending_move # None THEN pl.pending_move[1] ELSE @,
               !.pending_move = None]

\* A plausible slip: the rejected move is left pending.
cancel_move_leaves_pending(pl) == pl

cancel_move(pl) == [pl EXCEPT !.pending_move = None]

add_item(pl, item) == [pl EXCEPT !.inventory = Append(@, item)]

has_item(pl, item) == InSeq(item, pl.inventory)

\* A plausible slip: the last instance of the item is removed (rposition).
RemoveLast(s, x) ==
    IF ~InSeq(x, s) THEN s
    ELSE LET i == CHOOSE k \in 1..Len(s) :
                      s[k] = x /\ \A j \in (k + 1)..Len(s) : s[j] # x
         IN  SubSeq(s, 1, i - 1) \o SubSeq(s, i + 1, Len(s))

\* A plausible slip: every instance of the item is removed (retain).
RemoveEvery(s, x) ==
    LET Keep(y) == y # x
    IN  SelectSeq(s, Keep)

\* Vec::remove at the first index holding the item.
RemoveFirst(s, x) ==
    IF ~InSeq(x, s) THEN s
    ELSE LET i == CHOOSE k \in 1..Len(s) :
                      s[k] = x /\ \A j \in 1..(k - 1) : s[j] # x
         IN  SubSeq(s, 1, i - 1) \o SubSeq(s, i + 1, Len(s))

remove_item(pl, item) == [pl EXCEPT !.inventory = RemoveFirst(@, item)]

(***************************************************************************)
(* game.rs: helpers and interaction handlers.  A handler takes the game,   *)
(* the player and the target position and yields both after the call;      *)
(* died tells whether handle_player_death ran.  The messages of the UI do  *)
(* not touch the state and are left out.                                   *)
(***************************************************************************)
Outcome(g, pl, d) == [game |-> g, player |-> pl, died |-> d]

get_player_start(g) == g.level.player_start

\* Game::find_tile: the first cell in row-major order, over the stored
\* dimensions, that holds the tile.
find_tile(lv, tile_type) ==
    LET rows == lv.map_size[1]
        cols == lv.map_size[2]
        hits == {k \in 0..(rows * cols - 1) :
                    Cell(lv.map, k \div cols, k % cols) = tile_type}
    IN  IF hits = {} THEN None
        ELSE LET k == CHOOSE h \in hits : \A o \in hits : h <= o
             IN  Some(Position(AsI16(k \div cols), AsI16(k % cols)))

\* A plausible slip: every tile type must be found, not any.
has_all_tiles(lv, tile_types) ==
    \A t \in tile_types : find_tile(lv, t) # None

has_any_tile(lv, tile_types) ==
    \E t \in tile_types : find_tile(lv, t) # None

\* A plausible slip: the item is taken but its tile is left on the map.
handle_item_pickup_keeps_tile(g, pl, pos, item_type) ==
    Outcome(g, commit_move(add_item(pl, item_type)), FALSE)

handle_item_pickup(g, pl, pos, item_type) ==
    Outcome([g EXCEPT !.level.map[pos.row + 1][pos.col + 1] = "Empty"],
            commit_move(add_item(pl, item_type)),
            FALSE)

\* A plausible slip: the move is committed after the canoe is crafted.
handle_wood_log_canoe_commits(g, pl, pos) ==
    IF has_item(pl, "Axe")
    THEN LET water_pos == Position(pos.row, pos.col + 1)
             is_water_to_right == get_tile(g.level, water_pos) = Some("Water")
         IN  IF is_water_to_right
             THEN Outcome([g EXCEPT !.level =
                               set_tile(set_tile(@, water_pos, "Canoe"), pos, "Empty")],
                          commit_move(remove_item(pl, "Axe")),
                          FALSE)
             ELSE Outcome([g EXCEPT !.level = set_tile(@, pos, "Empty")],
                          commit_move(remove_item(pl, "Axe")),
                          FALSE)
    ELSE Outcome(g, cancel_move(pl), FALSE)

\* A plausible slip: the axe is kept when the log is only chopped.
handle_wood_log_keeps_axe(g, pl, pos) ==
    IF has_item(pl, "Axe")
    THEN LET water_pos == Position(pos.row, pos.col + 1)
             is_water_to_right == get_tile(g.level, water_pos) = Some("Water")
         IN  IF is_water_to_right
             THEN Outcome([g EXCEPT !.level =
                               set_tile(set_tile(@, water_pos, "Canoe"), pos, "Empty")],
                          cancel_move(remove_item(pl, "Axe")),
                          FALSE)
             ELSE Outcome([g EXCEPT !.level = set_tile(@, pos, "Empty")],
                          commit_move(pl),
                          FALSE)
    ELSE Outcome(g, cancel_move(pl), FALSE)

handle_wood_log(g, pl, pos) ==
    IF has_item(pl, "Axe")
    THEN LET water_pos == Position(pos.row, pos.col + 1)
             is_water_to_right == get_tile(g.level, water_pos) = Some("Water")
         IN  IF is_water_to_right
             THEN Outcome([g EXCEPT !.level =
                               set_tile(set_tile(@, water_pos, "Canoe"), pos, "Empty")],
                          cancel_move(remove_item(pl, "Axe")),
                          FALSE)
             ELSE Outcome([g EXCEPT !.level = set_tile(@, pos, "Empty")],
                          commit_move(remove_item(pl, "Axe")),
                          FALSE)
    ELSE Outcome(g, cancel_move(pl), FALSE)

handle_door(g, pl, pos) ==
    IF has_item(pl, "Key")
    THEN Outcome([g EXCEPT !.level = set_tile(@, pos, "DoorOpen")],
                 cancel_move(remove_item(pl, "Key")),
                 FALSE)
    ELSE Outcome(g, cancel_move(pl), FALSE)

\* A plausible slip: cancel_move is forgotten.
handle_cottage_keeps_pending(g, pl, pos) ==
    Outcome([g EXCEPT !.level = set_tile(@, pos, "Tomb")],
            add_item(pl, "Bomb"),
            FALSE)

\* A plausible slip: the cottage is left standing.
handle_cottage_stays_cottage(g, pl, pos) ==
    Outcome(g, cancel_move(add_item(pl, "Bomb")), FALSE)

handle_cottage(g, pl, pos) ==
    Outcome([g EXCEPT !.level = set_tile(@, pos, "Tomb")],
            cancel_move(add_item(pl, "Bomb")),
            FALSE)

\* A plausible slip: without a bomb the move is committed, not cancelled.
handle_rock_walks_in(g, pl, pos) ==
    IF has_item(pl, "Bomb")
    THEN Outcome([g EXCEPT !.level = set_tile(@, pos, "Empty")],
                 cancel_move(remove_item(pl, "Bomb")),
                 FALSE)
    ELSE Outcome(g, commit_move(pl), FALSE)

handle_rock(g, pl, pos) ==
    IF has_item(pl, "Bomb")
    THEN Outcome([g EXCEPT !.level = set_tile(@, pos, "Empty")],
                 cancel_move(remove_item(pl, "Bomb")),
                 FALSE)
    ELSE Outcome(g, cancel_move(pl), FALSE)

Min2(a, b) == IF a <= b THEN a ELSE b
Max2(a, b) == IF a >= b THEN a ELSE b

\* set_tile applied to every position of a set (the order does not matter:
\* each call writes one cell of its own).
set_tiles(lv, S, tile_type) ==
    [lv EXCEPT !.map =
        [r \in DOMAIN lv.map |->
            [c \in DOMAIN lv.map[r] |->
                IF Position(r - 1, c - 1) \in S /\ InBounds(lv, Position(r - 1, c - 1))
                THEN tile_type
                ELSE lv.map[r][c]]]]

\* A plausible slip: the ranges of the loops are half-open (.. for ..=).
HookSegmentHalfOpen(pos, end_pos) ==
    IF pos.row = end_pos.row
    THEN {Position(pos.row, c) :
              c \in Min2(pos.col, end_pos.col)..(Max2(pos.col, end_pos.col) - 1)}
    ELSE IF pos.col = end_pos.col
    THEN {Position(r, pos.col) :
              r \in Min2(pos.row, end_pos.row)..(Max2(pos.row, end_pos.row) - 1)}
    ELSE {}

\* The cells the two loops of handle_hook_start write.
HookSegment(pos, end_pos) ==
    IF pos.row = end_pos.row
    THEN {Position(pos.row, c) :
              c \in Min2(pos.col, end_pos.col)..Max2(pos.col, end_pos.col)}
    ELSE IF pos.col = end_pos.col
    THEN {Position(r, pos.col) :
              r \in Min2(pos.row, end_pos.row)..Max2(pos.row, end_pos.row)}
    ELSE {}

handle_hook_start(g, pl, pos) ==
    IF has_item(pl, "Hook")
    THEN LET hook_end == find_tile(g.level, "HookEnd")
             lv == IF hook_end # None
                   THEN set_tiles(set_tile(g.level, pos, "Link"),
                                  HookSegment(pos, hook_end[1]), "Link")
                   ELSE g.level
         IN  Outcome([g EXCEPT !.level = lv],
                     cancel_move(remove_item(pl, "Hook")),
                     FALSE)
    ELSE Outcome(g, cancel_move(pl), FALSE)

FlameTypes == {"FlameA", "FlameB", "FlameC"}

FlameOf(crystal_type) ==
    CASE crystal_type = "CrystalA" -> "FlameA"
      [] crystal_type = "CrystalB" -> "FlameB"
      [] crystal_type = "CrystalC" -> "FlameC"
      [] OTHER -> IndexFault

handle_crystal(g, pl, pos) ==
    LET crystal_type == Cell(g.level.map, pos.row, pos.col)
        flame_type == FlameOf(crystal_type)
    IN  IF flame_type = IndexFault THEN Outcome(g, pl, FALSE)
        ELSE LET flame_pos == find_tile(g.level, flame_type)
                 lv1 == IF flame_pos # None
                        THEN set_tile(g.level, flame_pos[1], "Empty")
                        ELSE g.level
                 lv2 == set_tile(lv1, pos, "Alembic")
                 all_flames_removed == ~has_any_tile(lv2, FlameTypes)
             IN  Outcome([g EXCEPT !.level = lv2],
                         cancel_move(IF all_flames_removed
                                     THEN add_item(pl, "WindChime")
                                     ELSE pl),
                         FALSE)

\* A plausible slip: the wind-chime is not consumed.
handle_oni_keeps_chime(g, pl, pos) ==
    IF has_item(pl, "WindChime")
    THEN Outcome([g EXCEPT !.level = set_tile(@, pos, "Empty")],
                 commit_move(add_item(pl, "DragonSword")),
                 FALSE)
    ELSE Outcome(g, reset_position(pl, get_player_start(g)), TRUE)

handle_oni(g, pl, pos) ==
    IF has_item(pl, "WindChime")
    THEN Outcome([g EXCEPT !.level = set_tile(@, pos, "Empty")],
                 commit_move(add_item(remove_item(pl, "WindChime"), "DragonSword")),
                 FALSE)
    ELSE Outcome(g, reset_position(pl, get_player_start(g)), TRUE)

\* A plausible slip: the last clash pushes the actor back like the others.
handle_boss_last_clash_resets(g, pl, pos) ==
    IF has_item(pl, "DragonSword")
    THEN IF g.boss_health > 0
         THEN LET h == g.boss_health - 1
              IN  IF h = 0
                  THEN Outcome([g EXCEPT !.boss_health = h,
                                         !.level = set_tile(@, pos, "Empty")],
                               reset_position(pl, get_player_start(g)),
                               FALSE)
                  ELSE Outcome([g EXCEPT !.boss_health = h],
                               reset_position(pl, get_player_start(g)),
                               FALSE)
         ELSE Outcome(g, reset_position(pl, get_player_start(g)), FALSE)
    ELSE Outcome(g, reset_position(pl, get_player_start(g)), TRUE)

\* A plausible slip: a clash without the dragon-sword also hurts the boss.
handle_boss_swordless_hurts(g, pl, pos) ==
    IF g.boss_health > 0
    THEN LET h == g.boss_health - 1
         IN  IF h = 0 /\ has_item(pl, "DragonSword")
             THEN Outcome([g EXCEPT !.boss_health = h,
                                    !.level = set_tile(@, pos, "Empty")],
                          commit_move(pl),
                          FALSE)
             ELSE Outcome([g EXCEPT !.boss_health = h],
                          reset_position(pl, get_player_start(g)),
                          ~has_item(pl, "DragonSword"))
    ELSE Outcome(g, reset_position(pl, get_player_start(g)),
                 ~has_item(pl, "DragonSword"))

\* A plausible slip: the test for health 0 stands outside the test for
\* health > 0, so a clash with a defeated boss clears the tile and commits.
handle_boss_defeated_clears_tile(g, pl, pos) ==
    IF has_item(pl, "DragonSword")
    THEN LET h == IF g.boss_health > 0 THEN g.boss_health - 1 ELSE 0
         IN  IF h = 0
             THEN Outcome([g EXCEPT !.boss_health = h,
                                    !.level = set_tile(@, pos, "Empty")],
                          commit_move(pl),
                          FALSE)
             ELSE Outcome([g EXCEPT !.boss_health = h],
                          reset_position(pl, get_player_start(g)),
                          FALSE)
    ELSE Outcome(g, reset_position(pl, get_player_start(g)), TRUE)

handle_boss(g, pl, pos) ==
    IF has_item(pl, "DragonSword")
    THEN IF g.boss_health > 0
         THEN LET h == g.boss_health - 1
              IN  IF h = 0
                  THEN Outcome([g EXCEPT !.boss_health = h,
                                         !.level = set_tile(@, pos, "Empty")],
                               commit_move(pl),
                               FALSE)
                  ELSE Outcome([g EXCEPT !.boss_health = h],
                               reset_position(pl, get_player_start(g)),
                               FALSE)
         ELSE Outcome(g, reset_position(pl, get_player_start(g)), FALSE)
    ELSE Outcome(g, reset_position(pl, get_player_start(g)), TRUE)

\* Vec::retain(|enemy| enemy != pos)
remove_enemy(lv, pos) ==
    LET Keep(e) == e # pos
    IN  [lv EXCEPT !.enemies = SelectSeq(@, Keep)]

\* A plausible slip: without a sword the move is cancelled where the actor
\* stands instead of resetting the actor to the spawn.
handle_enemy_dies_in_place(g, pl, pos) ==
    IF has_item(pl, "Sword")
    THEN Outcome([g EXCEPT !.level = remove_enemy(@, pos)],
                 commit_move(remove_item(pl, "Sword")),
                 FALSE)
    ELSE Outcome(g, cancel_move(pl), TRUE)

handle_enemy(g, pl, pos) ==
    IF has_item(pl, "Sword")
    THEN Outcome([g EXCEPT !.level = remove_enemy(@, pos)],
                 commit_move(remove_item(pl, "Sword")),
                 FALSE)
    ELSE Outcome(g, reset_position(pl, get_player_start(g)), TRUE)

\* Game::handle_interaction
handle_interaction(g, pl) ==
    IF pl.pending_move = None THEN Outcome(g, pl, FALSE)
    ELSE LET new_pos == pl.pending_move[1]
             c == check_collision(g.level, new_pos)
         IN  IF c[1] # "Interactive" THEN Outcome(g, pl, FALSE)
             ELSE CASE c[2] = "Item"      -> handle_item_pickup(g, pl, new_pos, c[3])
                    [] c[2] = "WoodLog"   -> handle_wood_log(g, pl, new_pos)
                    [] c[2] = "Door"      -> handle_door(g, pl, new_pos)
                    [] c[2] = "Cottage"   -> handle_cottage(g, pl, new_pos)
                    [] c[2] = "Rock"      -> handle_rock(g, pl, new_pos)
                    [] c[2] = "HookStart" -> handle_hook_start(g, pl, new_pos)
                    [] c[2] = "CrystalA"  -> handle_crystal(g, pl, new_pos)
                    [] c[2] = "CrystalB"  -> handle_crystal(g, pl, new_pos)
                    [] c[2] = "CrystalC"  -> handle_crystal(g, pl, new_pos)
                    [] c[2] = "Enemy"     -> handle_enemy(g, pl, new_pos)
                    [] c[2] = "Oni"       -> handle_oni(g, pl, new_pos)
                    [] c[2] = "Boss"      -> handle_boss(g, pl, new_pos)

\* A plausible slip: a sign typed twice makes the last direction diagonal.
directions_with_diagonal == <<<<0, 1>>, <<0, -1>>, <<1, 0>>, <<-1, -1>>>>

\* One draw of the random source for one enemy: None when random_bool(0.8)
\* is false, Some(i) for the index of the direction otherwise.
directions == <<<<0, 1>>, <<0, -1>>, <<1, 0>>, <<-1, 0>>>>

Draws == {None} \cup {Some(i) : i \in 1..Len(directions)}

\* A plausible slip: a candidate cell is refused only when it is blocking.
enemy_step_avoids_blocking_only(taken, enemy, draw) ==
    IF draw = None THEN enemy
    ELSE LET d == directions[draw[1]]
             new_pos == Position(enemy.row + d[1], enemy.col + d[2])
         IN  IF check_collision(taken, new_pos)[1] # "Blocking"
             THEN new_pos ELSE enemy

\* The body of the loop of update_enemies; taken is the level while its
\* enemy list is moved out (std::mem::take leaves it empty).
enemy_step(taken, enemy, draw) ==
    IF draw = None THEN enemy
    ELSE LET d == directions[draw[1]]
             new_pos == Position(enemy.row + d[1], enemy.col + d[2])
         IN  IF check_collision(taken, new_pos) = CNone THEN new_pos ELSE enemy

\* A plausible slip: the enemies are written into the grid, the cell each
\* one stands on after the tick becoming a tomb.
update_enemies_marks_cells(lv, draws) ==
    LET taken == [lv EXCEPT !.enemies = <<>>]
        moved == [i \in 1..Len(lv.enemies) |->
                     enemy_step(taken, lv.enemies[i], draws[i])]
    IN  [lv EXCEPT !.enemies = moved,
                   !.map = [r \in DOMAIN lv.map |->
                               [c \in DOMAIN lv.map[r] |->
                                   IF InSeq(Position(r - 1, c - 1), moved)
                                   THEN "Tomb" ELSE lv.map[r][c]]]]

update_enemies(lv, draws) ==
    LET taken == [lv EXCEPT !.enemies = <<>>]
    IN  [lv EXCEPT !.enemies =
            [i \in 1..Len(lv.enemies) |-> enemy_step(taken, lv.enemies[i], draws[i])]]

\* The file maps/level_<n>.txt; fs is the sequence of the files that exist.
LevelFile(fs, n) == IF n \in 1..Len(fs) THEN Some(fs[n]) ELSE None

\* A plausible variant: the counter is put back when the advance fails.
advance_level_restores_counter(g, fs) ==
    LET n == g.current_level + 1
        new_level == IF n <= max_levels THEN Load(LevelFile(fs, n)) ELSE None
    IN  IF new_level # None
        THEN [game |-> [g EXCEPT !.current_level = n, !.level = new_level[1]],
              result |-> TRUE]
        ELSE [game |-> g, result |-> FALSE]

\* A plausible slip: the maximum is compared with the counter as it was
\* before the increment.
advance_level_tests_old_counter(g, fs) ==
    LET n == g.current_level + 1
        g1 == [g EXCEPT !.current_level = n]
        new_level == IF g.current_level <= max_levels
                     THEN Load(LevelFile(fs, n)) ELSE None
    IN  IF new_level # None
        THEN [game |-> [g1 EXCEPT !.level = new_level[1]], result |-> TRUE]
        ELSE [game |-> g1, result |-> FALSE]

\* Game::advance_level: the game after the call and the value returned.
\* A plausible slip: the enemies of the level left behind are kept in front
\* of those of the new level.
advance_level_keeps_enemies(g, fs) ==
    LET n == g.current_level + 1
        g1 == [g EXCEPT !.current_level = n]
        new_level == IF n <= max_levels THEN Load(LevelFile(fs, n)) ELSE None
    IN  IF new_level # None
        THEN [game |-> [g1 EXCEPT !.level =
                            [new_level[1] EXCEPT
                                 !.enemies = g.level.enemies \o @]],
              result |-> TRUE]
        ELSE [game |-> g1, result |-> FALSE]

advance_level(g, fs) ==
    LET n == g.current_level + 1
        g1 == [g EXCEPT !.current_level = n]
        new_level == IF n <= max_levels THEN Load(LevelFile(fs, n)) ELSE None
    IN  IF new_level # None
        THEN [game |-> [g1 EXCEPT !.level = new_level[1]], result |-> TRUE]
        ELSE [game |-> g1, result |-> FALSE]

\* Game::new followed by Game::init_player
NewGame(fs) ==
    [current_level |-> 1, level |-> Load(LevelFile(fs, 1))[1], boss_health |-> 3]

init_player(g) == reset_position(NewPlayer, g.level.player_start)

(***************************************************************************)
(* The level files of the runs.  They are rectangular, as                  *)
(* test_level_map_consistency requires of the shipped levels.              *)
(***************************************************************************)
\* apa / lwl / sls
LWood ==
    <<<<"a", "p", "a">>, <<"l", "w", "l">>, <<"s", "l", "s">>>>

\* kph@ / dr1s / ksss
LGate ==
    <<<<"k", "p", "h", "@">>, <<"d", "r", "1", "s">>, <<"k", "s", "s", "s">>>>

\* jpss / s1t2
LHookRow ==
    <<<<"j", "p", "s", "s">>, <<"s", "1", "t", "2">>>>

\* 2sj / wps / 1ss
LHookCol ==
    <<<<"2", "s", "j">>, <<"w", "p", "s">>, <<"1", "s", "s">>>>

\* jp2 / 1ss
LHookOff ==
    <<<<"j", "p", "2">>, <<"1", "s", "s">>>>

\* jp / 1s
LHookNone ==
    <<<<"j", "p">>, <<"1", "s">>>>

\* jp2 / 1s2
LHookTwo ==
    <<<<"j", "p", "2">>, <<"1", "s", "2">>>>

\* sAs / BpC / 345
LCrystal ==
    <<<<"s", "A", "s">>, <<"B", "p", "C">>, <<"3", "4", "5">>>>

\* ApA / s3s
LCrystalTwin ==
    <<<<"A", "p", "A">>, <<"s", "3", "s">>>>

\* Ap / ss
LCrystalBare ==
    <<<<"A", "p">>, <<"s", "s">>>>

\* Ap / 33
LCrystalExtra ==
    <<<<"A", "p">>, <<"3", "3">>>>

\* +pe / sss / sgs
LFight ==
    <<<<"+", "p", "e">>, <<"s", "s", "s">>, <<"s", "g", "s">>>>

\* ipx / os0 / s$s
LBoss ==
    <<<<"i", "p", "x">>, <<"o", "s", "0">>, <<"s", "$", "s">>>>

\* xp0 / sgs
LDuel ==
    <<<<"x", "p", "0">>, <<"s", "g", "s">>>>

\* +pe / tse
LSwarm ==
    <<<<"+", "p", "e">>, <<"t", "s", "e">>>>

\* ipi / sos
LOni ==
    <<<<"i", "p", "i">>, <<"s", "o", "s">>>>

\* pg
LLast ==
    <<<<"p", "g">>>>

\* ts / ss (no spawn marker: the spawn is (0,0), a wall)
LBare ==
    <<<<"t", "s">>, <<"s", "s">>>>

\* xp0 / s0s
LTwin ==
    <<<<"x", "p", "0">>, <<"s", "0", "s">>>>

Packs ==
    {<<LWood>>, <<LGate>>, <<LHookRow>>, <<LHookCol>>, <<LHookOff>>,
     <<LHookNone>>, <<LHookTwo>>, <<LCrystal>>, <<LCrystalTwin>>,
     <<LCrystalBare>>, <<LCrystalExtra>>, <<LFight, LBoss>>,
     <<LDuel, LBoss>>, <<LSwarm>>, <<LOni>>, <<LLast>>,
     <<LLast, LBare>>, <<LTwin>>}

(***************************************************************************)
(* main.rs: the game loop.  A key sets the pending move; the enemies move  *)
(* on their own timer; the pending move is resolved in the frame of its    *)
(* key.                                                                    *)
(***************************************************************************)
Init ==
    /\ files \in Packs
    /\ game = NewGame(files)
    /\ player = init_player(game)
    /\ running = TRUE
    /\ panicked = FALSE
    /\ last = [op |-> "new"]

Live == running /\ ~panicked

Pressed(pl, key) ==
    CASE key = "up"    -> move_up(pl)
      [] key = "down"  -> move_down(pl)
      [] key = "left"  -> move_left(pl)
      [] key = "right" -> move_right(pl)

Key ==
    /\ Live
    /\ player.pending_move = None
    /\ \E key \in {"up", "down", "left", "right"} :
          /\ player' = Pressed(player, key)
          /\ last' = [op |-> "key", key |-> key, game |-> game, player |-> player]
    /\ UNCHANGED <<game, files, running, panicked>>

UpdateEnemies ==
    /\ Live
    /\ \E draws \in [1..Len(game.level.enemies) -> Draws] :
          /\ game' = [game EXCEPT !.level = update_enemies(@, draws)]
          /\ last' = [op |-> "update_enemies", draws |-> draws,
                       game |-> game, player |-> player]
    /\ UNCHANGED <<player, files, running, panicked>>

Target == player.pending_move[1]
Collision == check_collision(game.level, Target)
Resolving == Live /\ player.pending_move # None

Resolved(c, d) ==
    [op |-> "resolve", pos |-> Target, collision |-> c, died |-> d,
     game |-> game, player |-> player]

ResolveNone ==
    /\ Resolving
    /\ Collision = CNone
    /\ player' = commit_move(player)
    /\ last' = Resolved(Collision, FALSE)
    /\ UNCHANGED <<game, files, running, panicked>>

ResolveBlocking ==
    /\ Resolving
    /\ Collision[1] = "Blocking"
    /\ player' = cancel_move(player)
    /\ last' = Resolved(Collision, FALSE)
    /\ UNCHANGED <<game, files, running, panicked>>

ResolveGoal ==
    /\ Resolving
    /\ Collision = CGoal
    /\ LET adv == advance_level(game, files)
       IN  /\ game' = adv.game
           /\ IF adv.result
              THEN player' = reset_position(player, get_player_start(adv.game))
                   /\ UNCHANGED running
              ELSE running' = FALSE /\ UNCHANGED player
    /\ last' = Resolved(Collision, FALSE)
    /\ UNCHANGED <<files, panicked>>

ResolvePrincess ==
    /\ Resolving
    /\ Collision = CPrincess
    /\ running' = FALSE
    /\ last' = Resolved(Collision, FALSE)
    /\ UNCHANGED <<game, player, files, panicked>>

ResolveInteractive ==
    /\ Resolving
    /\ Collision[1] = "Interactive"
    /\ LET out == handle_interaction(game, player)
       IN  /\ game' = out.game
           /\ player' = out.player
           /\ last' = Resolved(Collision, out.died)
    /\ UNCHANGED <<files, running, panicked>>

Next ==
    \/ Key
    \/ UpdateEnemies
    \/ ResolveNone
    \/ ResolveBlocking
    \/ ResolveGoal
    \/ ResolvePrincess
    \/ ResolveInteractive

Spec == Init /\ [][Next]_vars

(***************************************************************************)
(* The level on its own: a level is loaded from a layout (rows of unequal  *)
(* length included), enemies are pushed into its public list as            *)
(* tests/game_tests.rs builds its level, and check_collision, get_tile and *)
(* set_tile are called with positions in and around the grid.              *)
(***************************************************************************)
MaxCoord == 2

Coords == (-1)..MaxCoord

Probes == {Position(r, c) : r \in Coords, c \in Coords}

\* Every character of the table of Level::load, and one outside it.
LayoutChars ==
    {"t", "b", "m", "v", "n", "h", "s", "w", "z", "a", "l", "c", "+", "k", "d",
     "D", "r", "@", "j", "1", "2", "-", "A", "B", "C", "3", "4", "5", "i", "x",
     "O", "o", "0", "$", "p", "e", "g", "?"}

RowLayout(ch) == <<<<ch, "t">>>>

GridLayouts == {<<<<"s", "e">>, <<"k", "t">>>>}

RaggedLayouts ==
    {<<<<"s", "k">>, <<"t">>>>,
     <<<<"s">>, <<"t", "k">>>>,
     <<<<>>, <<"s">>>>}

LevelLayouts ==
    {RowLayout(ch) : ch \in LayoutChars} \cup GridLayouts \cup RaggedLayouts

PushedEnemies == {<<>>, <<Position(0, 0), Position(-1, 0)>>}

SetTiles == {"Tomb", "Alembic"}

InitLevel ==
    /\ \E layout \in LevelLayouts, pushed \in PushedEnemies :
          /\ files = <<layout>>
          /\ game = [NewGame(files) EXCEPT !.level.enemies = @ \o pushed]
    /\ player = init_player(game)
    /\ running = TRUE
    /\ panicked = FALSE
    /\ last = [op |-> "new"]

CallCheckCollision ==
    /\ ~panicked
    /\ \E pos \in Probes :
          LET c == check_collision(game.level, pos)
          IN  /\ last' = [op |-> "check_collision", pos |-> pos, result |-> c]
              /\ panicked' = (c = CFault)
    /\ UNCHANGED <<game, player, files, running>>

CallGetTile ==
    /\ ~panicked
    /\ \E pos \in Probes :
          LET t == get_tile(game.level, pos)
          IN  /\ last' = [op |-> "get_tile", pos |-> pos, result |-> t]
              /\ panicked' = (t = Some(IndexFault))
    /\ UNCHANGED <<game, player, files, running>>

CallSetTile ==
    /\ ~panicked
    /\ \E pos \in Probes, tile_type \in SetTiles :
          /\ last' = [op |-> "set_tile", pos |-> pos, tile |-> tile_type,
                       level |-> game.level]
          /\ panicked' = IndexPanics(game.level, pos)
          /\ game' = [game EXCEPT !.level = set_tile(@, pos, tile_type)]
    /\ UNCHANGED <<player, files, running>>

NextLevel ==
    \/ CallCheckCollision
    \/ CallGetTile
    \/ CallSetTile

SpecLevel == InitLevel /\ [][NextLevel]_vars

(***************************************************************************)
(* The level progression and the loader on their own: a game is built on   *)
(* a pack of level files, and advance_level and Level::load are called     *)
(* directly, as often as the caller likes.                                 *)
(***************************************************************************)
MaxFiles == 12

MaxCounter == 13

\* The k-th file of a plain pack: the spawn, k empty cells and the goal.
Corridor(k) == <<<<"p">> \o [i \in 1..k |-> "s"] \o <<"g">>>>

CorridorPack(n) == [k \in 1..n |-> Corridor(k)]

\* Second files that are not a rectangle of cells: no line at all, rows of
\* unequal length, an empty first row, a spawn marker past the first row's
\* end.
OddLayouts ==
    RaggedLayouts \cup {<<>>, <<<<"s">>, <<"s", "p">>>>, <<<<>>>>}

\* Second files with several spawn markers, several enemy markers, no spawn
\* marker, and characters outside the table of Level::load.
MarkedLayouts ==
    {<<<<"p", "e", "?">>, <<"e", "p", "T">>>>,
     <<<<"e", " ">>, <<"k", "e">>>>,
     <<<<"p", "p", "e", "e">>>>}

\* The shortest length that does not fit the 8-bit dimensions of a level.
LongLen == 256

\* Second files with a first row of LongLen characters, and with LongLen rows.
LongLayouts ==
    {<<[i \in 1..LongLen |-> "s"]>>, [r \in 1..LongLen |-> <<"s">>]}

ProgressPacks ==
    {CorridorPack(n) : n \in 1..MaxFiles}
        \cup {<<Corridor(1), layout>> : layout \in OddLayouts \cup MarkedLayouts
                                                   \cup LongLayouts}
        \cup {<<LFight, LSwarm>>}

InitProgress ==
    /\ files \in ProgressPacks
    /\ game = NewGame(files)
    /\ player = init_player(game)
    /\ running = TRUE
    /\ panicked = FALSE
    /\ last = [op |-> "new"]

\* Game::advance_level.  The counter is incremented before the file is
\* read, so a fault of Level::load leaves it incremented.
CallAdvanceLevel ==
    /\ ~panicked
    /\ game.current_level < MaxCounter
    /\ LET n == game.current_level + 1
           faults == n <= max_levels /\ LoadPanics(LevelFile(files, n))
           adv == advance_level(game, files)
       IN  /\ game' = adv.game
           /\ panicked' = faults
           /\ last' = [op |-> "advance_level", game |-> game,
                        result |-> adv.result]
    /\ UNCHANGED <<player, files, running>>

\* Level::load(level_number)
CallLoad ==
    /\ ~panicked
    /\ \E level_number \in 0..(Len(files) + 1) :
          LET file == LevelFile(files, level_number)
          IN  /\ last' = [op |-> "load", level_number |-> level_number,
                           result |-> Load(file)]
              /\ panicked' = LoadPanics(file)
    /\ UNCHANGED <<game, player, files, running>>

NextProgress ==
    \/ CallAdvanceLevel
    \/ CallLoad

SpecProgress == InitProgress /\ [][NextProgress]_vars

(***************************************************************************)
(* The player on its own: the methods of Player are called in any order,   *)
(* as the tests of player.rs and tests/game_tests.rs call them.            *)
(***************************************************************************)
MaxWalk == 1

MaxItems == 3

\* The cells the actor is let walk to.
Walk == {Position(r, c) : r, c \in (-MaxWalk)..MaxWalk}

ResetTargets == {Position(0, 0), Position(MaxWalk, -MaxWalk)}

ItemsTried == {"Key", "Sword", "Bomb"}

InitPlayer ==
    /\ files = <<LHookNone>>
    /\ game = NewGame(files)
    /\ player = NewPlayer
    /\ running = TRUE
    /\ panicked = FALSE
    /\ last = [op |-> "new"]

CallMove ==
    /\ \E key \in {"up", "down", "left", "right"} :
          /\ player' = Pressed(player, key)
          /\ last' = [op |-> "move", key |-> key, player |-> player]
    /\ UNCHANGED <<game, files, running, panicked>>

CallCommitMove ==
    /\ player.pending_move # None => player.pending_move[1] \in Walk
    /\ player' = commit_move(player)
    /\ last' = [op |-> "commit_move", player |-> player]
    /\ UNCHANGED <<game, files, running, panicked>>

CallCancelMove ==
    /\ player' = cancel_move(player)
    /\ last' = [op |-> "cancel_move", player |-> player]
    /\ UNCHANGED <<game, files, running, panicked>>

CallResetPosition ==
    /\ \E pos \in ResetTargets :
          /\ player' = reset_position(player, pos)
          /\ last' = [op |-> "reset_position", pos |-> pos, player |-> player]
    /\ UNCHANGED <<game, files, running, panicked>>

CallAddItem ==
    /\ Len(player.inventory) < MaxItems
    /\ \E item \in ItemsTried :
          /\ player' = add_item(player, item)
          /\ last' = [op |-> "add_item", item |-> item, player |-> player]
    /\ UNCHANGED <<game, files, running, panicked>>

CallRemoveItem ==
    /\ \E item \in ItemsTried :
          /\ player' = remove_item(player, item)
          /\ last' = [op |-> "remove_item", item |-> item, player |-> player]
    /\ UNCHANGED <<game, files, running, panicked>>

CallHasItem ==
    /\ \E item \in ItemsTried :
          last' = [op |-> "has_item", item |-> item, player |-> player,
                   result |-> has_item(player, item)]
    /\ UNCHANGED <<game, player, files, running, panicked>>

NextPlayer ==
    \/ CallMove
    \/ CallCommitMove
    \/ CallCancelMove
    \/ CallResetPosition
    \/ CallAddItem
    \/ CallRemoveItem
    \/ CallHasItem

SpecPlayer == InitPlayer /\ [][NextPlayer]_vars

(***************************************************************************)
(* Properties of the level on its own (SpecLevel)                          *)
(***************************************************************************)
\* The classes of tiles the classification is stated for.
BlockingTerrain ==
    {"Wall", "Bamboo", "Mountain", "Water", "Volcano", "Lava", "SnowMountain",
     "FlameA", "FlameB", "FlameC", "Lantern"}

PickupTiles == {"Axe", "Sword", "Key", "Bomb", "Hook", "WindChime", "DragonSword"}

PuzzleTiles ==
    {"WoodLog", "Door", "Cottage", "Rock", "HookStart",
     "CrystalA", "CrystalB", "CrystalC", "Oni", "Boss"}

FallThroughTiles ==
    {"Empty", "DoorOpen", "Canoe", "Link", "Alembic", "Tomb", "HookEnd"}

\* Outside [0,rows) x [0,cols) of the stored dimensions.
OutsideMap(lv, pos) ==
    \/ pos.row < 0
    \/ pos.row >= lv.map_size[1]
    \/ pos.col < 0
    \/ pos.col >= lv.map_size[2]

\* C1: for every position whose row or column lies outside
\* [0,rows) x [0,cols), negative coordinates included, check_collision
\* returns Blocking(Wall), whatever the tiles and the enemy list are.
C1_OutOfBoundsIsWall ==
    (last.op = "check_collision" /\ OutsideMap(game.level, last.pos))
        => last.result = <<"Blocking", "Wall">>

\* A call with a negative row, at a position the enemy list holds.
C1_Witness ==
    /\ last.op = "check_collision"
    /\ last.pos.row < 0
    /\ InSeq(last.pos, game.level.enemies)
    /\ last.result = <<"Blocking", "Wall">>

\* C2: for every position that addresses a cell of the grid, the tile
\* decides first: blocking terrain gives Blocking(kind), goal gives Goal,
\* princess gives Princess, a pickup, puzzle or actor tile gives
\* Interactive(kind), also when the position is in the enemy list;
\* Interactive(Enemy) is returned exactly when the tile falls through and the
\* position is in the enemy list; otherwise the result is None.
C2_TileBeforeEnemy ==
    (/\ last.op = "check_collision"
     /\ ~OutsideMap(game.level, last.pos)
     /\ HasCell(game.level.map, last.pos.row, last.pos.col))
        => LET t == game.level.map[last.pos.row + 1][last.pos.col + 1]
               r == last.result
               enemy == InSeq(last.pos, game.level.enemies)
           IN  /\ t \in BlockingTerrain \cup PickupTiles \cup PuzzleTiles
                          \cup FallThroughTiles \cup {"Goal", "Princess"}
               /\ t \in BlockingTerrain => r = <<"Blocking", t>>
               /\ t = "Goal" => r = <<"Goal">>
               /\ t = "Princess" => r = <<"Princess">>
               /\ t \in PickupTiles => r = <<"Interactive", "Item", t>>
               /\ t \in PuzzleTiles => r = <<"Interactive", t>>
               /\ (r = <<"Interactive", "Enemy">>)
                      <=> (t \in FallThroughTiles /\ enemy)
               /\ (t \in FallThroughTiles /\ ~enemy) => r = <<"None">>

\* A call at a wall cell that the enemy list holds: the wall wins.
C2_Witness ==
    /\ last.op = "check_collision"
    /\ ~OutsideMap(game.level, last.pos)
    /\ InSeq(last.pos, game.level.enemies)
    /\ Cell(game.level.map, last.pos.row, last.pos.col) = "Wall"
    /\ last.result = <<"Blocking", "Wall">>

\* C3: for any level the loader can produce and any position, get_tile and
\* set_tile never fault: an out-of-bounds get_tile returns absent, an
\* out-of-bounds set_tile leaves every cell unchanged, and an access within
\* the stored dimensions completes without an index fault.
C3_TileAccessNeverFaults ==
    /\ last.op = "get_tile" =>
          /\ last.result # <<IndexFault>>
          /\ OutsideMap(game.level, last.pos) => last.result = <<>>
    /\ last.op = "set_tile" =>
          /\ ~panicked
          /\ OutsideMap(last.level, last.pos) => game.level = last.level

(***************************************************************************)
(* Properties of the interaction rules (Spec).  In a state whose last      *)
(* field has op = "resolve", last.game and last.player are the game and    *)
(* the player before the resolution of the pending move onto last.pos, and *)
(* game and player are the ones after it.                                  *)
(***************************************************************************)
Count(s, x) == Cardinality({i \in 1..Len(s) : s[i] = x})

TileAt(m, pos) == m[pos.row + 1][pos.col + 1]

OnGrid(m, pos) ==
    /\ pos.row + 1 \in DOMAIN m
    /\ pos.col + 1 \in DOMAIN m[pos.row + 1]

GridCells(m) ==
    {Position(r - 1, c - 1) : r \in DOMAIN m, c \in 1..Len(m[1])}

RightOf(pos) == [row |-> pos.row, col |-> pos.col + 1]

ResolvedOnto(kind) ==
    last.op = "resolve" /\ last.collision = <<"Interactive", kind>>

\* The inventory lost exactly one instance of the item and nothing else.
LostOne(before, after, item) ==
    /\ Len(after) = Len(before) - 1
    /\ Count(after, item) = Count(before, item) - 1
    /\ \A x \in PickupTiles \ {item} : Count(after, x) = Count(before, x)

\* The move was cancelled: the actor stays, the pending move is cleared.
Cancelled ==
    player.pos = last.player.pos /\ player.pending_move = <<>>

\* The move was applied: the actor is on the target, the pending move cleared.
Committed ==
    player.pos = last.pos /\ player.pending_move = <<>>

\* Every cell outside S holds the tile it held before.
OnlyChanged(S) ==
    /\ DOMAIN game.level.map = DOMAIN last.game.level.map
    /\ \A q \in GridCells(last.game.level.map) \ S :
          TileAt(game.level.map, q) = TileAt(last.game.level.map, q)

WaterToTheRight ==
    /\ OnGrid(last.game.level.map, RightOf(last.pos))
    /\ TileAt(last.game.level.map, RightOf(last.pos)) = "Water"

\* C4: resolving a pending move onto a wood-log at p with an axe held and
\* water immediately to the right of p: the water tile becomes canoe, p
\* becomes empty, exactly one axe is removed, and the move is not applied
\* (position unchanged, pending move cleared).
C4_LogAxeWaterMakesCanoe ==
    (/\ ResolvedOnto("WoodLog")
     /\ Count(last.player.inventory, "Axe") >= 1
     /\ WaterToTheRight)
        => /\ TileAt(game.level.map, RightOf(last.pos)) = "Canoe"
           /\ TileAt(game.level.map, last.pos) = "Empty"
           /\ LostOne(last.player.inventory, player.inventory, "Axe")
           /\ Cancelled

\* A canoe crafted while two axes were held: one axe is left.
C4_Witness ==
    /\ ResolvedOnto("WoodLog")
    /\ Count(last.player.inventory, "Axe") = 2
    /\ WaterToTheRight
    /\ TileAt(game.level.map, RightOf(last.pos)) = "Canoe"
    /\ Count(player.inventory, "Axe") = 1
    /\ player.pos # last.pos

\* C5: resolving a pending move onto a wood-log at p with an axe held when
\* the cell to the right of p is not water (another tile, or outside the
\* map): p becomes empty, exactly one axe is removed, no other cell changes,
\* and the move is applied so the actor ends on p.
C5_LogAxeNoWaterChops ==
    (/\ ResolvedOnto("WoodLog")
     /\ Count(last.player.inventory, "Axe") >= 1
     /\ ~WaterToTheRight)
        => /\ TileAt(game.level.map, last.pos) = "Empty"
           /\ OnlyChanged({last.pos})
           /\ LostOne(last.player.inventory, player.inventory, "Axe")
           /\ Committed

\* A log chopped in the last column, where the cell to the right is outside
\* the map.
C5_Witness ==
    /\ ResolvedOnto("WoodLog")
    /\ Count(last.player.inventory, "Axe") >= 1
    /\ last.pos.col + 1 = last.game.level.map_size[2]
    /\ TileAt(game.level.map, last.pos) = "Empty"
    /\ player.pos = last.pos

GatingItem(kind) ==
    CASE kind = "WoodLog"   -> "Axe"
      [] kind = "Door"      -> "Key"
      [] kind = "Rock"      -> "Bomb"
      [] kind = "HookStart" -> "Hook"

\* C6: when the gating item is missing (wood-log without axe, door without
\* key, rock without bomb, hook-start without hook) the resolution changes
\* no tile, no enemy, no inventory entry and not the boss health; the move is
\* cancelled: position unchanged, pending move cleared.
C6_MissingItemCancels ==
    \A kind \in {"WoodLog", "Door", "Rock", "HookStart"} :
        (ResolvedOnto(kind) /\ Count(last.player.inventory, GatingItem(kind)) = 0)
            => /\ game.level.map = last.game.level.map
               /\ game.level.enemies = last.game.level.enemies
               /\ game.boss_health = last.game.boss_health
               /\ player.inventory = last.player.inventory
               /\ Cancelled

\* A rock met without a bomb while other items are held.
C6_Witness ==
    /\ ResolvedOnto("Rock")
    /\ Count(last.player.inventory, "Bomb") = 0
    /\ last.player.inventory # <<>>
    /\ player.pos = last.player.pos
    /\ TileAt(game.level.map, last.pos) = "Rock"

CountTile(m, t) == Cardinality({q \in GridCells(m) : TileAt(m, q) = t})

CrystalKinds == {"CrystalA", "CrystalB", "CrystalC"}

FlameKinds == {"FlameA", "FlameB", "FlameC"}

Flames(m) == {q \in GridCells(m) : TileAt(m, q) \in FlameKinds}

ResolvedOntoCrystal ==
    /\ last.op = "resolve"
    /\ \E k \in CrystalKinds : last.collision = <<"Interactive", k>>

\* The grid of the level being played, as it was loaded.
LoadedMap == Load(<<files[last.game.current_level]>>)[1].map

\* Exactly one crystal and one flame of each of the three kinds.
ThreePairs(m) ==
    /\ \A k \in CrystalKinds : CountTile(m, k) = 1
    /\ \A f \in FlameKinds : CountTile(m, f) = 1

ChimesGained ==
    Count(player.inventory, "WindChime") - Count(last.player.inventory, "WindChime")

\* C7: on a map with exactly one crystal and one flame of each of the three
\* kinds, touching the crystals in any order grants no wind-chime on the
\* first two touches and exactly one on the third; after the third touch no
\* flame tile remains, each touched crystal cell is alembic, and every one
\* of the three moves is cancelled.  (The touches made so far are the
\* alembic cells: a loaded map has none.)
C7_ThreeCrystals ==
    (ResolvedOntoCrystal /\ ThreePairs(LoadedMap))
        => LET touchedBefore == CountTile(last.game.level.map, "Alembic")
           IN  /\ touchedBefore \in 0..2
               /\ touchedBefore < 2 =>
                     /\ ChimesGained = 0
                     /\ Count(player.inventory, "WindChime") = 0
               /\ touchedBefore = 2 =>
                     /\ ChimesGained = 1
                     /\ Flames(game.level.map) = {}
               /\ Len(player.inventory) = Len(last.player.inventory) + ChimesGained
               /\ TileAt(game.level.map, last.pos) = "Alembic"
               /\ CountTile(game.level.map, "Alembic") = touchedBefore + 1
               /\ \A k \in CrystalKinds :
                     CountTile(game.level.map, k) = 0
                         => CountTile(game.level.map, FlameOf(k)) = 0
               /\ Cancelled

\* The third touch: it grants the one wind-chime and no flame is left.
C7_Witness ==
    /\ ResolvedOntoCrystal
    /\ ThreePairs(LoadedMap)
    /\ CountTile(last.game.level.map, "Alembic") = 2
    /\ CountTile(game.level.map, "Alembic") = 3
    /\ player.inventory = <<"WindChime">>
    /\ Flames(game.level.map) = {}

\* C8: on any map, the crystal rule grants the wind-chime only in the
\* interaction that removes the last remaining flame tile (hence at most
\* once per level): a crystal touched when no flame was removed by that
\* touch never adds a wind-chime.
C8_ChimeOnlyWithLastFlame ==
    (ResolvedOntoCrystal /\ ChimesGained > 0)
        => /\ Flames(game.level.map) = {}
           /\ Flames(last.game.level.map) # {}

HookEnds(m) == {q \in GridCells(m) : TileAt(m, q) = "HookEnd"}

\* The first position of a set in reading order (rows, then columns).
FirstInScan(S) ==
    CHOOSE q \in S :
        \A o \in S : q.row < o.row \/ (q.row = o.row /\ q.col <= o.col)

Aligned(p, e) == p.row = e.row \/ p.col = e.col

Within(x, a, b) == (a <= x /\ x <= b) \/ (b <= x /\ x <= a)

\* The straight segment between two aligned positions, both included.
Between(p, e) ==
    {q \in GridCells(last.game.level.map) :
        \/ q.row = p.row /\ p.row = e.row /\ Within(q.col, p.col, e.col)
        \/ q.col = p.col /\ p.col = e.col /\ Within(q.row, p.row, e.row)}

HookUsed ==
    ResolvedOnto("HookStart") /\ Count(last.player.inventory, "Hook") >= 1

ChainLaid(e) ==
    /\ \A q \in Between(last.pos, e) : TileAt(game.level.map, q) = "Link"
    /\ OnlyChanged(Between(last.pos, e))
    /\ LostOne(last.player.inventory, player.inventory, "Hook")
    /\ Cancelled

\* C9 as stated: with a hook held, when a hook-end tile exists and shares
\* p's row or column, every cell on the segment between p and that hook-end,
\* both included, becomes link-chain, no cell off it changes, the hook is
\* consumed and the move is cancelled.
C9_AnyAlignedHookEnd ==
    (HookUsed /\ \E e \in HookEnds(last.game.level.map) : Aligned(last.pos, e))
        => \E e \in HookEnds(last.game.level.map) :
               Aligned(last.pos, e) /\ ChainLaid(e)

\* C9, amended: with a hook held, when the first hook-end tile in reading
\* order (the one the scan of the grid finds) shares p's row or column,
\* every cell on the segment between p and that hook-end, both included,
\* becomes link-chain whatever it held, no cell off the segment changes, the
\* hook is consumed and the move is cancelled.
C9_FirstHookEndAligned ==
    (/\ HookUsed
     /\ HookEnds(last.game.level.map) # {}
     /\ Aligned(last.pos, FirstInScan(HookEnds(last.game.level.map))))
        => ChainLaid(FirstInScan(HookEnds(last.game.level.map)))

\* A chain laid upwards along a column, over a water cell.
C9_Witness ==
    /\ HookUsed
    /\ HookEnds(last.game.level.map) # {}
    /\ LET e == FirstInScan(HookEnds(last.game.level.map))
       IN  /\ e.col = last.pos.col
           /\ e.row + 1 < last.pos.row
           /\ \E q \in Between(last.pos, e) :
                 TileAt(last.game.level.map, q) = "Water"
           /\ \A q \in Between(last.pos, e) : TileAt(game.level.map, q) = "Link"
    /\ Count(player.inventory, "Hook") = 0

\* C10: with a hook held, when the map has no hook-end tile or the hook-end
\* shares neither p's row nor p's column, no cell is converted to link-chain
\* (p itself stays hook-start), the hook is still consumed and the move is
\* cancelled.
C10_UnalignedHookChangesNothing ==
    (HookUsed /\ \A e \in HookEnds(last.game.level.map) : ~Aligned(last.pos, e))
        => /\ game.level.map = last.game.level.map
           /\ LostOne(last.player.inventory, player.inventory, "Hook")
           /\ Cancelled

\* Reset: the actor is on the spawn of the level, the pending move cleared.
AtSpawn ==
    player.pos = last.game.level.player_start /\ player.pending_move = <<>>

Held(item) == Count(last.player.inventory, item) >= 1

\* C11: with the dragon-sword held, a resolution against the boss tile at p
\* takes the boss health from 3 to 2 and from 2 to 1 leaving the boss tile
\* (and every other cell) in place and resetting the actor to the level
\* spawn, and from 1 to 0 setting p to empty and committing the move, so
\* that three resolutions in a row starting from health 3 end with the actor
\* on the former boss cell.  The dragon-sword is kept throughout.
C11_BossSequence ==
    (ResolvedOnto("Boss") /\ Held("DragonSword"))
        => LET h == last.game.boss_health
           IN  /\ h \in {2, 3} =>
                     /\ game.boss_health = h - 1
                     /\ game.level = last.game.level
                     /\ TileAt(game.level.map, last.pos) = "Boss"
                     /\ AtSpawn
               /\ h = 1 =>
                     /\ game.boss_health = 0
                     /\ TileAt(game.level.map, last.pos) = "Empty"
                     /\ OnlyChanged({last.pos})
                     /\ game.level.enemies = last.game.level.enemies
                     /\ Committed
               /\ player.inventory = last.player.inventory

\* The third clash of a fight that began at health 3 in this level: the
\* boss cell is empty and the actor stands on it.
C11_Witness ==
    /\ ResolvedOnto("Boss")
    /\ Held("DragonSword")
    /\ last.game.boss_health = 1
    /\ game.boss_health = 0
    /\ TileAt(last.game.level.map, last.pos) = "Boss"
    /\ TileAt(game.level.map, last.pos) = "Empty"
    /\ player.pos = last.pos
    /\ player.pos # last.game.level.player_start

\* C12: the boss health is always one of 0, 1, 2, 3 and starts at 3; no
\* operation (key, enemy tick, resolution of any kind, level advance
\* included) increases it; it decreases only in a resolution against a boss
\* tile made while the dragon-sword is held, and then by exactly 1; a
\* resolution against a boss tile without the dragon-sword leaves it as it
\* was.
C12_BossHealthMonotone ==
    /\ game.boss_health \in 0..3
    /\ last.op = "new" => game.boss_health = 3
    /\ last.op # "new" =>
          /\ game.boss_health <= last.game.boss_health
          /\ game.boss_health < last.game.boss_health =>
                /\ ResolvedOnto("Boss")
                /\ Held("DragonSword")
                /\ game.boss_health = last.game.boss_health - 1
          /\ (ResolvedOnto("Boss") /\ ~Held("DragonSword")) =>
                game.boss_health = last.game.boss_health

\* A level advance made after two clashes: the new level starts with the
\* boss health the old one ended with.
C12_Witness ==
    /\ last.op = "resolve"
    /\ last.collision = <<"Goal">>
    /\ game.current_level = last.game.current_level + 1
    /\ game.level # last.game.level
    /\ last.game.boss_health = 1
    /\ game.boss_health = 1

RequiredItem(kind) ==
    CASE kind = "Enemy" -> "Sword"
      [] kind = "Oni"   -> "WindChime"
      [] kind = "Boss"  -> "DragonSword"

\* C13: resolving a pending move onto an enemy without a sword, an oni
\* without a wind-chime or a boss without a dragon-sword signals the death,
\* puts the actor on the level spawn with the pending move cleared, and
\* leaves the encountered tile, every other tile, the enemy list, the
\* inventory and the boss health as they were.
C13_SwordlessEncounterResets ==
    \A kind \in {"Enemy", "Oni", "Boss"} :
        (ResolvedOnto(kind) /\ ~Held(RequiredItem(kind)))
            => /\ AtSpawn
               /\ last.died
               /\ game.level.map = last.game.level.map
               /\ game.level.enemies = last.game.level.enemies
               /\ game.level.player_start = last.game.level.player_start
               /\ player.inventory = last.player.inventory
               /\ game.boss_health = last.game.boss_health

\* An enemy met away from the spawn without a sword: the actor is back on
\* the spawn and the enemy is still on its cell.
C13_Witness ==
    /\ ResolvedOnto("Enemy")
    /\ ~Held("Sword")
    /\ last.player.pos # last.game.level.player_start
    /\ AtSpawn
    /\ InSeq(last.pos, game.level.enemies)

ResolvedInteractive ==
    last.op = "resolve" /\ last.collision[1] = "Interactive"

\* The player before the resolution, with the inventory of the one after it.
PlayerBefore == [last.player EXCEPT !.inventory = player.inventory]

\* C14: every resolution of a pending move whose target classifies as
\* Interactive(kind) ends with the pending move absent, and the player is
\* what commit_move (actor on the target p), cancel_move (actor where it
\* was) or reset_position to the level spawn makes of the player before it:
\* the actor is never anywhere else, and never both on p and where it was.
\* (A reset and a cancel end in the same state when the actor stood on the
\* spawn.)
C14_CommitCancelOrReset ==
    ResolvedInteractive
        => /\ player.pending_move = <<>>
           /\ \/ player = commit_move(PlayerBefore)
              \/ player = cancel_move(PlayerBefore)
              \/ player = reset_position(PlayerBefore, last.game.level.player_start)
           /\ ~(player.pos = last.pos /\ player.pos = last.player.pos)
           /\ last.died => AtSpawn

\* A cottage entered from a cell that is not the spawn: the move is
\* cancelled and the actor is neither on p nor on the spawn.
C14_Witness ==
    /\ ResolvedOnto("Cottage")
    /\ last.player.pos # last.game.level.player_start
    /\ player = cancel_move(PlayerBefore)
    /\ player.pos # last.pos
    /\ player.pos # last.game.level.player_start

ResolvedOntoItem(item) ==
    last.op = "resolve" /\ last.collision = <<"Interactive", "Item", item>>

\* The operation was made within one level (no new level was loaded).
SameLevel ==
    last.op # "new" /\ ~(last.op = "resolve" /\ last.collision = <<"Goal">>)

\* C15: resolving a pending move onto a pickup tile at p appends exactly one
\* instance of the matching item to the inventory, sets p to empty, changes
\* no other cell and commits the move; afterwards check_collision(p) is
\* None.  No operation within a level puts a pickup tile on a cell, so the
\* cell never yields its item a second time.
C15_PickupOnce ==
    /\ \A item \in ItemType :
          ResolvedOntoItem(item)
              => /\ TileAt(last.game.level.map, last.pos) = item
                 /\ player.inventory = Append(last.player.inventory, item)
                 /\ TileAt(game.level.map, last.pos) = "Empty"
                 /\ OnlyChanged({last.pos})
                 /\ Committed
                 /\ check_collision(game.level, last.pos) = <<"None">>
    /\ SameLevel =>
          \A q \in GridCells(game.level.map) :
              TileAt(game.level.map, q) \in PickupTiles
                  => TileAt(last.game.level.map, q) = TileAt(game.level.map, q)

\* A second key picked up while one is held: two keys are held, the cell is
\* empty and the actor stands on it.
C15_Witness ==
    /\ ResolvedOntoItem("Key")
    /\ Count(last.player.inventory, "Key") = 1
    /\ Count(player.inventory, "Key") = 2
    /\ TileAt(game.level.map, last.pos) = "Empty"
    /\ player.pos = last.pos
    /\ check_collision(game.level, player.pos) = <<"None">>

\* What a gate tile becomes when its item is used on it.
Opened(kind) == IF kind = "Door" THEN "DoorOpen" ELSE "Empty"

\* C16: resolving a pending move onto a door at p with a key held sets p to
\* door-open, and onto a rock at p with a bomb held sets p to empty; in both
\* cases exactly one instance of the gating item leaves the inventory (a
\* second key or bomb stays), no other cell changes, and the move is
\* cancelled: the actor does not enter p in that resolution.
C16_DoorAndRockOpen ==
    \A kind \in {"Door", "Rock"} :
        (ResolvedOnto(kind) /\ Held(GatingItem(kind)))
            => /\ TileAt(last.game.level.map, last.pos) = kind
               /\ TileAt(game.level.map, last.pos) = Opened(kind)
               /\ OnlyChanged({last.pos})
               /\ LostOne(last.player.inventory, player.inventory,
                          GatingItem(kind))
               /\ game.level.enemies = last.game.level.enemies
               /\ game.boss_health = last.game.boss_health
               /\ Cancelled
               /\ player.pos # last.pos

\* A door opened while two keys are held: one key is left and the actor is
\* still in front of the door.
C16_Witness ==
    /\ ResolvedOnto("Door")
    /\ Count(last.player.inventory, "Key") = 2
    /\ Count(player.inventory, "Key") = 1
    /\ TileAt(game.level.map, last.pos) = "DoorOpen"
    /\ player.pos = last.player.pos

\* The grid of the first level as it was loaded.
FirstMap == Load(Some(files[1]))[1].map

\* C17: resolving a pending move onto a cottage at p, whatever is held, sets
\* p to tomb, changes no other cell, appends exactly one bomb to the
\* inventory and cancels the move; p then classifies as None.  No operation
\* within a level makes a cell a cottage, and in the first level the bombs
\* held plus the rocks blown up equal the tombs plus the bomb tiles picked
\* up: each cottage cell has yielded at most one bomb.
C17_CottageOnce ==
    /\ ResolvedOnto("Cottage")
          => /\ TileAt(last.game.level.map, last.pos) = "Cottage"
             /\ TileAt(game.level.map, last.pos) = "Tomb"
             /\ OnlyChanged({last.pos})
             /\ player.inventory = Append(last.player.inventory, "Bomb")
             /\ Cancelled
             /\ check_collision(game.level, last.pos) = <<"None">>
    /\ SameLevel =>
          \A q \in GridCells(game.level.map) :
              TileAt(game.level.map, q) = "Cottage"
                  => TileAt(last.game.level.map, q) = "Cottage"
    /\ game.current_level = 1 =>
          LET m == game.level.map
          IN  /\ CountTile(m, "Cottage") + CountTile(m, "Tomb")
                     = CountTile(FirstMap, "Cottage")
              /\ Count(player.inventory, "Bomb")
                     + (CountTile(FirstMap, "Rock") - CountTile(m, "Rock"))
                  = CountTile(m, "Tomb")
                     + (CountTile(FirstMap, "Bomb") - CountTile(m, "Bomb"))

\* A cottage visited with a bomb already held: two bombs are held, the cell
\* is a tomb and the actor has not moved.
C17_Witness ==
    /\ ResolvedOnto("Cottage")
    /\ Count(last.player.inventory, "Bomb") = 1
    /\ Count(player.inventory, "Bomb") = 2
    /\ TileAt(game.level.map, last.pos) = "Tomb"
    /\ player.pos = last.player.pos

\* The sequence without its i-th entry.
Without(s, i) == SubSeq(s, 1, i - 1) \o SubSeq(s, i + 1, Len(s))

\* C18: resolving a pending move onto an enemy at p with a sword held
\* removes that one enemy from the enemy list (the list loses exactly one
\* entry, an entry at p, and every other entry is kept in place), consumes
\* exactly one sword, and commits the move.
C18_SwordRemovesOneEnemy ==
    (ResolvedOnto("Enemy") /\ Held("Sword"))
        => /\ Len(game.level.enemies) = Len(last.game.level.enemies) - 1
           /\ \E i \in 1..Len(last.game.level.enemies) :
                 /\ last.game.level.enemies[i] = last.pos
                 /\ game.level.enemies = Without(last.game.level.enemies, i)
           /\ LostOne(last.player.inventory, player.inventory, "Sword")
           /\ game.level.map = last.game.level.map
           /\ Committed

\* C19: resolving a pending move onto an oni at p with a wind-chime held
\* sets p to empty (and changes no other cell), removes exactly one
\* wind-chime, adds exactly one dragon-sword, keeps every other item, and
\* commits the move so the actor ends on p.
C19_OniWithChime ==
    (ResolvedOnto("Oni") /\ Held("WindChime"))
        => /\ TileAt(last.game.level.map, last.pos) = "Oni"
           /\ TileAt(game.level.map, last.pos) = "Empty"
           /\ OnlyChanged({last.pos})
           /\ Len(player.inventory) = Len(last.player.inventory)
           /\ Count(player.inventory, "WindChime")
                 = Count(last.player.inventory, "WindChime") - 1
           /\ Count(player.inventory, "DragonSword")
                 = Count(last.player.inventory, "DragonSword") + 1
           /\ \A x \in ItemType \ {"WindChime", "DragonSword"} :
                 Count(player.inventory, x) = Count(last.player.inventory, x)
           /\ game.level.enemies = last.game.level.enemies
           /\ game.boss_health = last.game.boss_health
           /\ ~last.died
           /\ Committed

\* An oni met with two wind-chimes held: one is left, a dragon-sword is
\* held and the actor stands on the former oni cell.
C19_Witness ==
    /\ ResolvedOnto("Oni")
    /\ Count(last.player.inventory, "WindChime") = 2
    /\ Count(player.inventory, "WindChime") = 1
    /\ Count(player.inventory, "DragonSword") = 1
    /\ TileAt(game.level.map, last.pos) = "Empty"
    /\ player.pos = last.pos

\* The cell an enemy tries when its draw is a direction.
Candidate(enemy, draw) ==
    Position(enemy.row + directions[draw[1]][1],
             enemy.col + directions[draw[1]][2])

\* C20: in every state reached from a loaded level by enemy ticks, player
\* moves, interactions and level advances, every enemy position lies within
\* [0,rows) x [0,cols) and on a cell whose tile is not blocking, goal,
\* princess or interactive; an enemy whose candidate cell is outside the
\* map or holds such a tile stays where it was.
C20_EnemiesOnFreeCells ==
    /\ \A i \in 1..Len(game.level.enemies) :
          LET e == game.level.enemies[i]
          IN  /\ e.row >= 0 /\ e.row < Len(game.level.map)
              /\ e.col >= 0 /\ e.col < Len(game.level.map[1])
              /\ game.level.map_size
                    = <<Len(game.level.map), Len(game.level.map[1])>>
              /\ TileAt(game.level.map, e) \in FallThroughTiles
    /\ last.op = "update_enemies" =>
          /\ Len(game.level.enemies) = Len(last.game.level.enemies)
          /\ \A i \in 1..Len(game.level.enemies) :
                (/\ last.draws[i] # <<>>
                 /\ LET c == Candidate(last.game.level.enemies[i], last.draws[i])
                    IN  \/ ~OnGrid(game.level.map, c)
                        \/ TileAt(game.level.map, c) \notin FallThroughTiles)
                    => game.level.enemies[i] = last.game.level.enemies[i]

\* A tick in which one enemy tried a wall cell and stayed, and another
\* moved to a free cell.
C20_Witness ==
    /\ last.op = "update_enemies"
    /\ \E i \in 1..Len(game.level.enemies) :
          /\ last.draws[i] # <<>>
          /\ OnGrid(game.level.map,
                    Candidate(last.game.level.enemies[i], last.draws[i]))
          /\ TileAt(game.level.map,
                    Candidate(last.game.level.enemies[i], last.draws[i])) = "Wall"
          /\ game.level.enemies[i] = last.game.level.enemies[i]
    /\ \E j \in 1..Len(game.level.enemies) :
          /\ game.level.enemies[j] # last.game.level.enemies[j]
          /\ TileAt(game.level.map, game.level.enemies[j]) = "Empty"

Abs(n) == IF n >= 0 THEN n ELSE -n

\* The number of orthogonal steps between two cells.
Steps(a, b) == Abs(a.row - b.row) + Abs(a.col - b.col)

\* The candidate cell is outside the grid or holds a tile an enemy may not
\* walk onto.
Refused(m, c) ==
    ~OnGrid(m, c) \/ TileAt(m, c) \notin FallThroughTiles

\* C21: in one enemy tick the enemy list keeps its length and its order:
\* the i-th entry after the tick is the i-th entry before it, either where
\* it was or exactly one cell away in one of the four orthogonal
\* directions (the one drawn for it); an enemy whose Bernoulli trial is
\* false, or whose candidate cell is refused, has not moved.
C21_TickMovesOneStep ==
    last.op = "update_enemies"
        => /\ Len(game.level.enemies) = Len(last.game.level.enemies)
           /\ \A i \in 1..Len(game.level.enemies) :
                 LET old == last.game.level.enemies[i]
                     new == game.level.enemies[i]
                     draw == last.draws[i]
                 IN  /\ Steps(old, new) \in {0, 1}
                     /\ draw = <<>> => new = old
                     /\ draw # <<>> =>
                           /\ draw[1] = 1 => new \in {old, Position(old.row, old.col + 1)}
                           /\ draw[1] = 2 => new \in {old, Position(old.row, old.col - 1)}
                           /\ draw[1] = 3 => new \in {old, Position(old.row + 1, old.col)}
                           /\ draw[1] = 4 => new \in {old, Position(old.row - 1, old.col)}
                           /\ Refused(game.level.map, Candidate(old, draw))
                                 => new = old

\* A tick of two enemies: the first moved one cell up, the second, whose
\* trial was false, stayed, and each is still at its index.
C21_Witness ==
    /\ last.op = "update_enemies"
    /\ Len(game.level.enemies) = 2
    /\ last.draws = <<<<4>>, <<>>>>
    /\ game.level.enemies[1].row = last.game.level.enemies[1].row - 1
    /\ game.level.enemies[1].col = last.game.level.enemies[1].col
    /\ game.level.enemies[2] = last.game.level.enemies[2]
    /\ game.level.enemies[1] # game.level.enemies[2]

\* C22: within one enemy tick the candidate cell of each enemy is accepted
\* or rejected by its classification against the tiles, the bounds and the
\* enemy list as it stood at the start of the tick: an enemy whose trial is
\* true moves exactly when its candidate cell classifies as None in the
\* level the tick started from, so never onto a cell that held another
\* enemy when the tick started.
C22_ValidatedAgainstOriginalList ==
    last.op = "update_enemies"
        => \A i \in 1..Len(last.game.level.enemies) :
               last.draws[i] # <<>>
                   => LET old == last.game.level.enemies[i]
                          c == Candidate(old, last.draws[i])
                      IN  IF check_collision(last.game.level, c) = <<"None">>
                          THEN game.level.enemies[i] = c
                          ELSE game.level.enemies[i] = old

(***************************************************************************)
(* Properties of the level progression and of the loader (SpecProgress).   *)
(* In a state whose last field has op = "advance_level", last.game is the  *)
(* game before the call and last.result the value returned.                *)
(***************************************************************************)
\* C23: advance_level called when the level counter is already the maximum
\* (10), or past it after earlier calls, returns false and leaves the grid,
\* the enemy list, the spawn and the dimensions of the current level as
\* they were, also when a file for the next number exists.
C23_AdvancePastLastLevel ==
    (last.op = "advance_level" /\ last.game.current_level >= max_levels)
        => /\ last.result = FALSE
           /\ ~panicked
           /\ game.level.map = last.game.level.map
           /\ game.level.enemies = last.game.level.enemies
           /\ game.level.player_start = last.game.level.player_start
           /\ game.level.map_size = last.game.level.map_size

\* The call made on the tenth level of a pack that has an eleventh file:
\* false is returned and the tenth level stays.
C23_Witness ==
    /\ last.op = "advance_level"
    /\ last.game.current_level = max_levels
    /\ Len(files) > max_levels
    /\ last.result = FALSE
    /\ game.level = Load(Some(files[max_levels]))[1]
    /\ game.level # Load(Some(files[max_levels + 1]))[1]

\* C24: whenever advance_level returns false (the counter past the maximum,
\* or the next level not loaded) the whole game is as it was before the
\* call: the current level, the level counter and the boss health (the
\* maximum is a constant).
C24_FailedAdvanceChangesNothing ==
    (last.op = "advance_level" /\ ~panicked /\ last.result = FALSE)
        => /\ game.level = last.game.level
           /\ game.current_level = last.game.current_level
           /\ game.boss_health = last.game.boss_health

\* C24, amended: whenever advance_level returns false the current level
\* (grid, enemy list, spawn, dimensions) and the boss health are as they
\* were before the call, and the level counter has grown by exactly 1.
C24_FailedAdvanceKeepsLevel ==
    (last.op = "advance_level" /\ ~panicked /\ last.result = FALSE)
        => /\ game.level = last.game.level
           /\ game.boss_health = last.game.boss_health
           /\ game.current_level = last.game.current_level + 1

\* A call that fails below the maximum because the next file is missing:
\* the level stays and the counter has moved on.
C24_Witness ==
    /\ last.op = "advance_level"
    /\ ~panicked
    /\ last.result = FALSE
    /\ last.game.current_level < max_levels
    /\ Len(files) = last.game.current_level
    /\ game.level = last.game.level
    /\ game.current_level = Len(files) + 1

\* C32: advance_level returns true exactly when the incremented counter
\* does not exceed the maximum and the next level loads; the counter has
\* then grown by exactly 1 and the current level (grid, enemy list, spawn,
\* dimensions) is the newly loaded one, nothing of the level left behind
\* remaining.
C32_AdvanceReplacesLevel ==
    (last.op = "advance_level" /\ ~panicked) =>
        LET n == last.game.current_level + 1
            loaded == IF n <= max_levels THEN Load(LevelFile(files, n)) ELSE None
        IN  /\ last.result = (n <= max_levels /\ Load(LevelFile(files, n)) # None)
            /\ last.result =>
                  /\ game.current_level = n
                  /\ game.level.map = loaded[1].map
                  /\ game.level.enemies = loaded[1].enemies
                  /\ game.level.player_start = loaded[1].player_start
                  /\ game.level.map_size = loaded[1].map_size

\* A level with an enemy is left for a level of other dimensions with two
\* enemies: only the two of the new level are listed.
C32_Witness ==
    /\ last.op = "advance_level"
    /\ ~panicked
    /\ last.result
    /\ last.game.level.enemies # <<>>
    /\ game.level.map_size # last.game.level.map_size
    /\ Len(game.level.enemies) = 2
    /\ game.level.enemies # last.game.level.enemies
    /\ game.current_level = last.game.current_level + 1

\* The characters that Level::load maps to a tile of their own.
TileChars == LayoutChars \ {"?", "p", "e"}

\* Reading order of two positions: row by row, left to right.
ReadBefore(a, b) == a.row < b.row \/ (a.row = b.row /\ a.col < b.col)

\* The positions of the character ch in the lines of a file.
Marked(lines, ch) ==
    UNION {{Position(r - 1, c - 1) : c \in {k \in 1..Len(lines[r]) : lines[r][k] = ch}}
              : r \in 1..Len(lines)}

\* C33: the loader decodes one tile per character; the spawn marker yields
\* an empty cell and its position is the spawn, the last marker in reading
\* order winning and (0,0) standing in when there is none; each enemy marker
\* yields an empty cell and its position is appended to the enemy list in
\* reading order; a character outside the table yields an empty tile and no
\* error.
C33_LoaderDecodesMarkers ==
    (last.op = "load" /\ last.result # None) =>
        LET lines  == files[last.level_number]
            lv     == last.result[1]
            spawns == Marked(lines, "p")
            foes   == Marked(lines, "e")
        IN  /\ ~panicked
            /\ Len(lv.map) = Len(lines)
            /\ \A r \in 1..Len(lines) :
                  /\ Len(lv.map[r]) = Len(lines[r])
                  /\ \A c \in 1..Len(lines[r]) :
                        lines[r][c] \notin TileChars => lv.map[r][c] = "Empty"
            /\ IF spawns = {} THEN lv.player_start = Position(0, 0)
               ELSE /\ lv.player_start \in spawns
                    /\ \A q \in spawns : ~ReadBefore(lv.player_start, q)
            /\ Len(lv.enemies) = Cardinality(foes)
            /\ \A i \in 1..Len(lv.enemies) : lv.enemies[i] \in foes
            /\ \A i \in 1..(Len(lv.enemies) - 1) :
                  ReadBefore(lv.enemies[i], lv.enemies[i + 1])

\* A file with two spawn markers, two enemy markers and two characters
\* outside the table is loaded.
C33_Witness ==
    /\ last.op = "load"
    /\ last.result # None
    /\ files[last.level_number] = <<<<"p", "e", "?">>, <<"e", "p", "T">>>>
    /\ last.result[1].player_start = Position(1, 1)
    /\ last.result[1].enemies = <<Position(0, 1), Position(1, 0)>>
    /\ last.result[1].map = <<<<"Empty", "Empty", "Empty">>,
                              <<"Empty", "Empty", "Empty">>>>

\* C34: for every layout, the dimensions stored by the loader are the row
\* count of the decoded grid and the length of its first row, also when the
\* layout has more than 255 rows or a first row of more than 255 characters.
C34_StoredDimensionsAreGridDimensions ==
    (last.op = "load" /\ last.result # None) =>
        /\ last.result[1].map_size[1] = Len(last.result[1].map)
        /\ last.result[1].map_size[2] = Len(last.result[1].map[1])

\* C25: for every layout the loader accepts, every row of the grid has the
\* stored column count as its length, the stored row count is the number of
\* rows, and the spawn lies within [0,rows) x [0,cols).
C25_LoadedLevelIsRectangular ==
    (last.op = "load" /\ ~panicked /\ last.result # <<>>)
        => LET lv == last.result[1]
           IN  /\ lv.map_size[1] = Len(lv.map)
               /\ \A r \in 1..Len(lv.map) : Len(lv.map[r]) = lv.map_size[2]
               /\ lv.player_start.row >= 0
               /\ lv.player_start.row < lv.map_size[1]
               /\ lv.player_start.col >= 0
               /\ lv.player_start.col < lv.map_size[2]

\* C26: Level::load never faults: for every level number and every content
\* of the file, a file with no line included, it returns a level or
\* signals the failure as an absent result.
C26_LoadNeverFaults ==
    last.op = "load" => ~panicked


\* C30: for every in-bounds position p and every tile t, set_tile(p, t)
\* followed by get_tile(p) returns t, every other cell of the grid is
\* unchanged, and writing the original tile back restores the original
\* grid.  In bounds is what the bounds check of set_tile accepts; the calls
\* are those of SpecLevel, on every layout the loader returns.
C30_SetThenGetRoundTrip ==
    (last.op = "set_tile" /\ InBounds(last.level, last.pos)) =>
        /\ ~panicked
        /\ get_tile(game.level, last.pos) = Some(last.tile)
        /\ \A r \in 1..Len(last.level.map) :
              \A c \in 1..Len(last.level.map[r]) :
                 Position(r - 1, c - 1) # last.pos =>
                     game.level.map[r][c] = last.level.map[r][c]
        /\ LET original == get_tile(last.level, last.pos)[1]
           IN  set_tile(game.level, last.pos, original) = last.level

(***************************************************************************)
(* Properties of the player on its own (SpecPlayer)                        *)
(***************************************************************************)
\* The cell one step from pos in the direction of the key.
OneStep(pos, key) ==
    CASE key = "up"    -> Position(pos.row - 1, pos.col)
      [] key = "down"  -> Position(pos.row + 1, pos.col)
      [] key = "left"  -> Position(pos.row, pos.col - 1)
      [] key = "right" -> Position(pos.row, pos.col + 1)

\* C27: each directional command sets the pending move to the cell one step
\* from the actor's current position in that direction, whatever the
\* earlier pending move was, and leaves the position and the inventory
\* unchanged.
C27_MoveSetsPendingFromPosition ==
    last.op = "move" =>
        /\ player.pending_move = Some(OneStep(last.player.pos, last.key))
        /\ player.pos = last.player.pos
        /\ player.inventory = last.player.inventory

\* A command arrives while an earlier move is pending, and the cell one
\* step from the earlier target differs from the cell one step from the
\* position.
C27_Witness ==
    /\ last.op = "move"
    /\ last.player.pending_move # None
    /\ last.player.pending_move[1] # last.player.pos
    /\ last.player.inventory # <<>>
    /\ player.pending_move = Some(OneStep(player.pos, last.key))
    /\ player.pending_move # Some(OneStep(last.player.pending_move[1], last.key))

\* C28: commit_move moves the actor to the pending target and clears the
\* pending move (with no pending move the position stays); cancel_move
\* clears the pending move and keeps the position; reset_position(q) sets
\* the position to q and clears the pending move; the inventory is kept by
\* all three.
C28_CommitCancelReset ==
    /\ last.op = "commit_move" =>
          /\ player.pos = IF last.player.pending_move # None
                          THEN last.player.pending_move[1]
                          ELSE last.player.pos
          /\ player.pending_move = None
          /\ player.inventory = last.player.inventory
    /\ last.op = "cancel_move" =>
          /\ player.pos = last.player.pos
          /\ player.pending_move = None
          /\ player.inventory = last.player.inventory
    /\ last.op = "reset_position" =>
          /\ player.pos = last.pos
          /\ player.pending_move = None
          /\ player.inventory = last.player.inventory

\* A pending move to another cell is committed by an actor that carries
\* items.
C28_Witness ==
    /\ last.op = "commit_move"
    /\ last.player.pending_move # None
    /\ last.player.pending_move[1] # last.player.pos
    /\ last.player.inventory # <<>>
    /\ player.pos = last.player.pending_move[1]
    /\ player.pending_move = None

\* The index of the first instance of x in s.
FirstIndex(s, x) ==
    CHOOSE i \in 1..Len(s) : s[i] = x /\ \A j \in 1..(i - 1) : s[j] # x

\* C29: add_item appends one instance; remove_item(x) deletes the first
\* instance of x only, keeping the order and count of the other entries,
\* and changes nothing when x is absent; has_item(x) is true exactly when
\* at least one instance of x is held.
C29_InventoryOrderedWithDuplicates ==
    /\ last.op = "add_item" =>
          player.inventory = Append(last.player.inventory, last.item)
    /\ last.op = "remove_item" =>
          player.inventory =
              IF Count(last.player.inventory, last.item) = 0
              THEN last.player.inventory
              ELSE Without(last.player.inventory,
                           FirstIndex(last.player.inventory, last.item))
    /\ last.op = "has_item" =>
          /\ last.result = (Count(player.inventory, last.item) >= 1)
          /\ player = last.player
    /\ last.op \in {"add_item", "remove_item"} =>
          /\ player.pos = last.player.pos
          /\ player.pending_move = last.player.pending_move

\* One of two keys held around a bomb is removed: the first key goes, the
\* bomb and the second key stay in order, and a key is still held.
C29_Witness ==
    /\ last.op = "remove_item"
    /\ last.item = "Key"
    /\ last.player.inventory = <<"Key", "Bomb", "Key">>
    /\ player.inventory = <<"Bomb", "Key">>
    /\ has_item(player, "Key")

(***************************************************************************)
(* Properties of the game loop (Spec)                                      *)
(***************************************************************************)
\* C31: a pending move is resolved by its classification: None commits it;
\* Blocking cancels it with the actor's position unchanged; Goal calls
\* advance_level and on true resets the actor to the new level's spawn, on
\* false ends the game; Princess ends the game; Interactive runs the
\* interaction rule.  Unless the game ended, the pending move is absent
\* after the resolution, and a move is pending only between its key and its
\* resolution.
C31_PendingResolvedByClassification ==
    /\ last.op = "resolve" =>
          /\ last.player.pending_move = Some(last.pos)
          /\ last.collision = check_collision(last.game.level, last.pos)
          /\ last.collision = CNone =>
                /\ player.pos = last.pos
                /\ player.inventory = last.player.inventory
                /\ game = last.game
                /\ running
          /\ last.collision[1] = "Blocking" =>
                /\ player.pos = last.player.pos
                /\ player.inventory = last.player.inventory
                /\ game = last.game
                /\ running
          /\ last.collision = CGoal =>
                LET adv == advance_level(last.game, files)
                IN  /\ game = adv.game
                    /\ player.inventory = last.player.inventory
                    /\ IF adv.result
                       THEN running /\ player.pos = game.level.player_start
                       ELSE ~running /\ player = last.player
          /\ last.collision = CPrincess =>
                /\ ~running
                /\ game = last.game
                /\ player = last.player
          /\ last.collision[1] = "Interactive" =>
                LET out == handle_interaction(last.game, last.player)
                IN  /\ game = out.game
                    /\ player = out.player
                    /\ running
          /\ running => player.pending_move = None
    /\ (running /\ player.pending_move # None) =>
          last.op \in {"key", "update_enemies"}

\* A move onto the goal is resolved by a successful advance: the actor
\* stands on the spawn of the next level with no move pending.
C31_Witness ==
    /\ last.op = "resolve"
    /\ last.collision = CGoal
    /\ running
    /\ game.current_level = last.game.current_level + 1
    /\ game.level # last.game.level
    /\ player.pos = game.level.player_start
    /\ player.pos # last.player.pos
    /\ player.pending_move = None

\* The tiles that check_collision classifies as Blocking.
BlockingTiles ==
    {"Wall", "Bamboo", "Mountain", "Water", "Volcano", "Lava", "SnowMountain",
     "FlameA", "FlameB", "FlameC", "Lantern"}

\* The spawn of level k of the pack, as loaded, is within the stored
\* dimensions and on a tile that is not blocking.
SpawnFree(k) ==
    LET lv == Load(Some(files[k]))[1]
    IN  /\ InBounds(lv, lv.player_start)
        /\ OnGrid(lv.map, lv.player_start)
        /\ TileAt(lv.map, lv.player_start) \notin BlockingTiles

\* The actor is within the stored dimensions of the current level, on a
\* cell of the grid whose tile is not blocking.
ActorOnFreeCell ==
    /\ InBounds(game.level, player.pos)
    /\ OnGrid(game.level.map, player.pos)
    /\ TileAt(game.level.map, player.pos) \notin BlockingTiles

\* No cell that was not blocking before an interaction is blocking after it.
NoCellTurnedBlocking ==
    (last.op = "resolve" /\ last.collision[1] = "Interactive") =>
        \A q \in GridCells(game.level.map) :
            TileAt(game.level.map, q) \in BlockingTiles
                => TileAt(last.game.level.map, q) \in BlockingTiles

\* C35: starting from a level whose spawn is in bounds on a non-blocking
\* tile, after any sequence of directional commands, resolutions, enemy
\* ticks and successful level advances the actor is within [0,rows) x
\* [0,cols) of the current map and on a tile that is not blocking; no
\* interaction rule turns a cell into a blocking tile.
C35_ActorOnFreeCell ==
    /\ SpawnFree(1) => ActorOnFreeCell
    /\ NoCellTurnedBlocking

\* C35, amended: when the first level and every level entered by an advance
\* has its spawn in bounds on a non-blocking tile, the actor is always
\* within [0,rows) x [0,cols) of the current map and on a tile that is not
\* blocking; no interaction rule turns a cell into a blocking tile.
C35_ActorOnFreeCellOfGoodLevels ==
    /\ (\A k \in 1..Len(files) : k <= game.current_level => SpawnFree(k))
          => ActorOnFreeCell
    /\ NoCellTurnedBlocking

\* On the second level of a pack the actor has walked off the spawn onto
\* another cell.
C35_Witness ==
    /\ \A k \in 1..Len(files) : SpawnFree(k)
    /\ game.current_level = 2
    /\ last.op = "resolve"
    /\ last.collision = CNone
    /\ player.pos # game.level.player_start
    /\ ActorOnFreeCell

\* C36: an enemy tick changes only the positions stored in the enemy list:
\* the grid, the spawn, the dimensions, the actor's position, pending move
\* and inventory, the boss health and the level counter are after the tick
\* what they were before it (the maximum is a constant), and the loop goes
\* on.
C36_TickChangesEnemiesOnly ==
    last.op = "update_enemies" =>
        /\ game.level.map = last.game.level.map
        /\ game.level.player_start = last.game.level.player_start
        /\ game.level.map_size = last.game.level.map_size
        /\ player.pos = last.player.pos
        /\ player.pending_move = last.player.pending_move
        /\ player.inventory = last.player.inventory
        /\ game.boss_health = last.game.boss_health
        /\ game.current_level = last.game.current_level
        /\ running
        /\ ~panicked

\* A tick in which an enemy moved while the actor, carrying an item, had a
\* move pending.
C36_Witness ==
    /\ last.op = "update_enemies"
    /\ game.level.enemies # last.game.level.enemies
    /\ player.pending_move # None
    /\ player.inventory # <<>>
    /\ game.level.map = last.game.level.map

\* C37: under any interleaving of enemy ticks and player moves, an actor
\* that holds no sword never shares a cell with an enemy at the end of a
\* tick (no move is pending there): whether the actor stepped onto the
\* enemy or the enemy stepped onto the actor, the actor has been reset to
\* the level spawn.
C37_SwordlessActorNeverSharesCell ==
    (running /\ player.pending_move = None /\ ~has_item(player, "Sword"))
        => ~InSeq(player.pos, game.level.enemies)

\* C38: defeated is terminal.  Once the boss health is 0, in the same level
\* or after a level advance, it stays 0, and a resolution against a boss
\* tile with the dragon-sword held leaves the health at 0 and the boss tile
\* (and the whole level) in place and resets the actor to the spawn; within
\* a level a boss tile becomes empty only at the target of the clash that
\* takes the health from 1 to 0; no boss resolution changes the inventory,
\* so the dragon-sword stays.
C38_DefeatedIsTerminal ==
    /\ (last.op # "new" /\ last.game.boss_health = 0) => game.boss_health = 0
    /\ (ResolvedOnto("Boss") /\ Held("DragonSword") /\ last.game.boss_health = 0)
          => /\ game.boss_health = 0
             /\ game.level = last.game.level
             /\ TileAt(game.level.map, last.pos) = "Boss"
             /\ AtSpawn
             /\ ~last.died
    /\ SameLevel =>
          \A q \in GridCells(game.level.map) :
              (/\ TileAt(last.game.level.map, q) = "Boss"
               /\ TileAt(game.level.map, q) = "Empty")
                  => /\ ResolvedOnto("Boss")
                     /\ Held("DragonSword")
                     /\ q = last.pos
                     /\ last.game.boss_health = 1
                     /\ game.boss_health = 0
    /\ ResolvedOnto("Boss") => player.inventory = last.player.inventory

\* The boss of the first level was defeated; on the second level the actor,
\* dragon-sword in hand, walks into that level's boss: the health stays 0,
\* the boss tile stays and the actor is back on the spawn.
C38_Witness ==
    /\ ResolvedOnto("Boss")
    /\ Held("DragonSword")
    /\ last.game.boss_health = 0
    /\ game.current_level = 2
    /\ game.boss_health = 0
    /\ TileAt(game.level.map, last.pos) = "Boss"
    /\ player.pos = game.level.player_start
    /\ last.player.pos # game.level.player_start
    /\ has_item(player, "DragonSword")

=============================================================================
